---- MODULE Spec2Model ----
(***************************************************************************)
(* Meal-plan generation of utakula_server_v2: the dietary filter, the      *)
(* portion sizing and merge helpers, the weekly allocation engine          *)
(* (MealPlanHelpers) and the suggest_meal_plan request handler             *)
(* (MealPlanController).                                                   *)
(*                                                                         *)
(* Number representation.  The program computes with Python floats; the    *)
(* model computes with exact integers in fixed units:                      *)
(*   - gram quantities are integers in units of 0.01 g, so a value rounded *)
(*     to one decimal (round(x, 1)) is a multiple of 10;                   *)
(*   - kcal quantities are integers in units of 0.0001 kcal, so a value    *)
(*     rounded to one decimal is a multiple of 1000 and a value rounded to *)
(*     two decimals is a multiple of 100;                                  *)
(*   - calories.total (kcal per 100 g) and the nutrient amounts of a food  *)
(*     are plain integers, as the catalogue stores them;                   *)
(*   - servings are integers in units of 0.1 serving.                      *)
(* round() is modelled as round-half-to-even on the exact quotient.        *)
(* Python lists that are only tested for membership (tags, allergens,      *)
(* conditions and the three request lists) are modelled as sets.           *)
(***************************************************************************)
EXTENDS Integers, Sequences, FiniteSets, TLC

VARIABLES
    pc,                    \* position of the operation that is running
    food_list,             \* List[FoodRead] handed to the filter / the engine
    dietary_restrictions,  \* request list
    allergies,             \* request list
    medical_conditions,    \* request list
    filtered_foods,        \* value returned by filter_by_dietary_requirements
    grams_args,            \* arguments of _calculate_grams_for_calories
    grams_result,          \* its return value
    meal_items,            \* the meal list handed to _add_or_update_food
    new_food,              \* the SelectedFood of the latest _add_or_update_food call
    add_result,            \* (calories added, macros added) it returned
    add_calls,             \* number of _add_or_update_food calls made on meal_items
    body_goal,             \* generate_user_meal_plan: parameter (reassigned when unknown)
    daily_calorie_target,  \* parameter, 0.0001 kcal
    categorized_foods,     \* the five buckets of _categorize_foods
    day_index,             \* number of days appended so far
    day_plan,              \* the day being built
    meal_plan,             \* the list the engine returns (see EndDay)
    meal_calories,         \* breakfast_calories, lunch_calories, supper_calories
    meal_macros,           \* breakfast_macros, lunch_macros, supper_macros
    num_main_items,        \* random.randint(1, 2) of the meal being built
    i,                     \* loop index of the main-item loop
    remaining_target,      \* remaining_<meal>_target
    available_supper_foods, \* candidates of the supper main-item loop
    authorization,         \* suggest_meal_plan: the Authorization header
    meal_plan_preferences, \* the request body
    db_user_metrics,       \* calculated_tdee of the user's current metrics row, if any
    db_foods,              \* db.query(FoodModel).all()
    target_calories,       \* local of suggest_meal_plan
    calculated_tdee,       \* local of suggest_meal_plan
    response,              \* what suggest_meal_plan returned or raised
    filter_calls,          \* calls of filter_by_dietary_requirements made
    engine_calls,          \* arguments of the generate_user_meal_plan calls made
    tdee_args,             \* arguments of calculate_tdee
    tdee_result,           \* its lbm, bmr and return value
    adjust_args,           \* arguments of adjust_for_body_goal
    adjust_result,         \* its return value
    serving_args,          \* grams, macro_nutrient, meal_type of a servings round trip
    servings_result,       \* value returned by calculate_servings
    grams_from_servings,   \* value returned by calculate_grams_from_servings
    parked,                \* two runs of the engine: the locals of the run that waits
    active_run,            \* two runs of the engine: the run that is executing
    subscriptions,         \* the subscriptions table: the user's rows
    payment_history,       \* the payment_history table: the user's rows
    utcnow,                \* datetime.utcnow(), in days
    user_metrics,          \* the user_metrics table: the user's rows
    metrics_requests       \* the create/update_user_metrics requests in progress

filterVars == <<food_list, dietary_restrictions, allergies, medical_conditions,
                filtered_foods>>
gramsVars  == <<grams_args, grams_result>>
mergeVars  == <<meal_items, new_food, add_result, add_calls>>
planVars   == <<body_goal, daily_calorie_target, categorized_foods, day_index,
                day_plan, meal_plan, meal_calories, meal_macros, num_main_items,
                i, remaining_target, available_supper_foods>>
suggestVars == <<authorization, meal_plan_preferences, db_user_metrics, db_foods,
                 target_calories, calculated_tdee, response, filter_calls,
                 engine_calls>>
tdeeVars == <<tdee_args, tdee_result, adjust_args, adjust_result>>
servingVars == <<serving_args, servings_result, grams_from_servings>>
runVars == <<parked, active_run>>
subscriptionVars == <<subscriptions, payment_history, utcnow>>
metricsVars == <<user_metrics, metrics_requests>>
vars == <<pc, filterVars, gramsVars, mergeVars, planVars, suggestVars, tdeeVars,
          servingVars, runVars, subscriptionVars, metricsVars>>

(***************************************************************************)
(* Bounds of the model.                                                    *)
(***************************************************************************)
MaxFilterFoods == 2   \* longest catalogue handed to the filter
MaxDensity == 2       \* sizing check: |calories_per_100g| <= MaxDensity
MaxSizing == 12       \* sizing check: |target| and the gram bounds are <= MaxSizing
MaxAddCalls == 3      \* _add_or_update_food calls made on one meal list
MaxPlanFoods == 2     \* longest catalogue handed to the engine
MaxDbFoods == 1       \* number of FoodModel rows of a suggest_meal_plan request
MaxWeightKg == 100    \* calculate_tdee check: weight_kg ranges over 1..MaxWeightKg
MaxGramSteps == 100   \* servings round trip: grams range over MaxGramSteps steps
MaxDay == 30          \* subscriptions: the clock runs over days 0..MaxDay
MaxPayments == 1      \* subscriptions: payments initiated
MaxMetricsRows == 3   \* user metrics: rows created

(***************************************************************************)
(* Arithmetic helpers.                                                     *)
(***************************************************************************)
\* round(num / den) to the nearest integer, ties to even; den > 0.
RoundHalfEven(num, den) ==
    LET q == num \div den
        r == num % den
    IN  IF 2 * r < den THEN q
        ELSE IF 2 * r > den THEN q + 1
        ELSE IF q % 2 = 0 THEN q ELSE q + 1

Range(s) == {s[k] : k \in 1..Len(s)}

(***************************************************************************)
(* The food catalogue.  A FoodRead carries the fields the engine and the   *)
(* filter read.  breakdown holds the amount of each nutrient per reference *)
(* portion; BreakdownSchema declares every nutrient Optional, and a        *)
(* nutrient that is left out (None) is NoNutrient.  The amounts and total   *)
(* of a food are per reference_portion_grams, the FoodModel column that     *)
(* defaults to 100.                                                        *)
(***************************************************************************)
Nutrient(a) == [is_none |-> FALSE, amount |-> a]
NoNutrient == [is_none |-> TRUE, amount |-> 0]

Food(id, mt, mn, tot, p, c, f, fi, tags, al, co) ==
    [food_id |-> id, meal_type |-> mt, macro_nutrient |-> mn, total |-> tot,
     reference_portion_grams |-> 100,
     breakdown |-> [protein |-> Nutrient(p), carbohydrate |-> Nutrient(c),
                    fat |-> f, fiber |-> Nutrient(fi)],
     dietary_tags |-> tags, allergens |-> al, suitable_for_conditions |-> co]

\* a food whose row sets reference_portion_grams
WithReferencePortion(food, grams) == [food EXCEPT !.reference_portion_grams = grams]

FoodUniverse ==
    << Food("f1", "breakfast or snack", "Carbohydrate", 200, 10, 30, Nutrient(5), 2,
            {"vegan", "halal"}, {"gluten"}, {"diabetes", "gout"}),
       Food("f2", "lunch or supper", "Protein", 300, 25, 20, Nutrient(10), 3,
            {"halal"}, {}, {"diabetes"}),
       WithReferencePortion(
           Food("f3", "lunch or supper", "Carbohydrate", 150, 5, 25, Nutrient(2), 4,
                {"vegan"}, {"gluten", "dairy"}, {}), 50),
       Food("f4", "beverage", "Carbohydrate", 40, 1, 9, Nutrient(0), 0,
            {}, {"dairy"}, {"gout"}),
       Food("f5", "fruit", "Fiber", 50, 1, 12, Nutrient(0), 2,
            {"vegan", "halal"}, {}, {"diabetes", "gout"}),
       Food("f6", "side dish", "Fiber", 100, 3, 15, Nutrient(3), 5,
            {"vegan"}, {"dairy"}, {"gout"}),
       Food("f7", "breakfast, beverage, fruit", "Fat", 0, 0, 0, Nutrient(0), 0,
            {"halal"}, {"gluten"}, {"diabetes"}),
       Food("f8", "breakfast or snack", "Protein", 250, 12, 20, NoNutrient, 1,
            {}, {}, {"diabetes", "gout"}) >>

\* a catalogue of six lunch/supper dishes, two of them with the same
\* calories, for the selection by thirds
SelectionCatalogue ==
    << Food("m1", "lunch or supper", "Fiber", 100, 4, 12, Nutrient(1), 6, {}, {}, {}),
       Food("m2", "lunch or supper", "Fiber", 100, 6, 10, Nutrient(2), 5, {}, {}, {}),
       Food("m3", "lunch or supper", "Carbohydrate", 200, 6, 40, Nutrient(2), 3,
            {}, {}, {}),
       Food("m4", "lunch or supper", "Protein", 300, 30, 10, Nutrient(15), 1,
            {}, {}, {}),
       Food("m5", "lunch or supper", "Protein", 400, 35, 20, Nutrient(20), 2,
            {}, {}, {}),
       Food("m6", "lunch or supper", "Fat", 500, 20, 30, Nutrient(33), 2,
            {}, {}, {}) >>

RestrictionNames == {"vegan", "halal"}
AllergenNames == {"gluten", "dairy"}
ConditionNames == {"diabetes", "gout"}

\* Catalogues: lists of distinct foods of the universe, at most n long.
RECURSIVE Catalogues(_)
Catalogues(n) ==
    IF n = 0 THEN {<<>>}
    ELSE LET shorter == Catalogues(n - 1)
         IN  shorter \cup
             {Append(s[1], FoodUniverse[s[2]]) :
                 s \in {t \in shorter \X (1..Len(FoodUniverse)) :
                           /\ Len(t[1]) = n - 1
                           /\ \A j \in 1..Len(t[1]) :
                                 t[1][j].food_id # FoodUniverse[t[2]].food_id}}

\* the foods of the universe at the positions in idx, in universe order
RECURSIVE PickFrom(_, _)
PickFrom(idx, k) ==
    IF k > Len(FoodUniverse) THEN <<>>
    ELSE IF k \in idx THEN <<FoodUniverse[k]>> \o PickFrom(idx, k + 1)
         ELSE PickFrom(idx, k + 1)

\* Catalogues in universe order (the engine's outcomes do not depend on the
\* order of a catalogue without calorie ties), at most n long.
OrderedCatalogues(n) ==
    {PickFrom(idx, 1) : idx \in {x \in SUBSET (1..Len(FoodUniverse)) :
                                    Cardinality(x) <= n}}

(***************************************************************************)
(* MealPlanHelpers.filter_by_dietary_requirements                          *)
(***************************************************************************)
\* IncludeFood with the allergen test written with all() instead of any()
IncludeFood_AllAllergens(food, restr, allerg, conds) ==
    /\ (restr # {}) => (\E pref \in restr : pref \in food.dietary_tags)
    /\ (allerg # {}) => ~(\A allergen \in allerg : allergen \in food.allergens)
    /\ (conds # {}) => (\A condition \in conds :
                            condition \in food.suitable_for_conditions)

\* IncludeFood with the condition test written with any() instead of all()
IncludeFood_AnyCondition(food, restr, allerg, conds) ==
    /\ (restr # {}) => (\E pref \in restr : pref \in food.dietary_tags)
    /\ (allerg # {}) => ~(\E allergen \in allerg : allergen \in food.allergens)
    /\ (conds # {}) => (\E condition \in conds :
                            condition \in food.suitable_for_conditions)

\* The body of the for loop: TRUE iff the food reaches the append.
IncludeFood(food, restr, allerg, conds) ==
    /\ (restr # {}) => (\E pref \in restr : pref \in food.dietary_tags)
    /\ (allerg # {}) => ~(\E allergen \in allerg : allergen \in food.allergens)
    /\ (conds # {}) => (\A condition \in conds :
                            condition \in food.suitable_for_conditions)

\* The for loop over food_list, appending the foods that pass.
RECURSIVE FilterLoop(_, _, _, _)
FilterLoop(foods, restr, allerg, conds) ==
    IF foods = <<>> THEN <<>>
    ELSE IF IncludeFood(Head(foods), restr, allerg, conds)
         THEN <<Head(foods)>> \o FilterLoop(Tail(foods), restr, allerg, conds)
         ELSE FilterLoop(Tail(foods), restr, allerg, conds)

\* filter_by_dietary_requirements whose early return hands back the empty
\* accumulator instead of food_list
filter_returns_accumulator(restr, allerg, conds, foods) ==
    IF restr = {} /\ allerg = {} /\ conds = {}
    THEN <<>>
    ELSE FilterLoop(foods, restr, allerg, conds)

filter_by_dietary_requirements(restr, allerg, conds, foods) ==
    IF restr = {} /\ allerg = {} /\ conds = {}
    THEN foods
    ELSE FilterLoop(foods, restr, allerg, conds)

FilterInit ==
    /\ pc = "filter_call"
    /\ food_list \in Catalogues(MaxFilterFoods)
    /\ dietary_restrictions \in SUBSET RestrictionNames
    /\ allergies \in SUBSET AllergenNames
    /\ medical_conditions \in SUBSET ConditionNames
    /\ filtered_foods = <<>>

FilterIdle ==
    /\ food_list = <<>>
    /\ dietary_restrictions = {}
    /\ allergies = {}
    /\ medical_conditions = {}
    /\ filtered_foods = <<>>

\* One call of filter_by_dietary_requirements on the drawn arguments.
FilterCall ==
    /\ pc = "filter_call"
    /\ filtered_foods' = filter_by_dietary_requirements(
            dietary_restrictions, allergies, medical_conditions, food_list)
    /\ pc' = "filter_done"
    /\ UNCHANGED <<food_list, dietary_restrictions, allergies, medical_conditions>>

(***************************************************************************)
(* MealPlanHelpers._calculate_grams_for_calories                           *)
(* calories_per_100g is an integer, target_calories is in 0.0001 kcal,     *)
(* min_grams, max_grams and the result are in 0.01 g.  In these units      *)
(* ideal_grams = (target / calories_per_100g) * 100 is the exact quotient  *)
(* target / calories_per_100g; share divides the target first              *)
(* (remaining / (num_main_items - i) at the call sites).                   *)
(***************************************************************************)
\* round(x, 1) of a gram value x = num / den (den > 0), in 0.01 g.
RoundGrams1(num, den) == 10 * RoundHalfEven(num, 10 * den)

\* _calculate_grams_for_calories without the max(min_grams, ...) of the clamp
calculate_grams_for_calories_NoLowerClamp(density, target, share, min_grams, max_grams) ==
    IF density = 0
    THEN min_grams
    ELSE LET sgn == IF density < 0 THEN -1 ELSE 1
             num == sgn * target
             den == sgn * density * share
         IN  IF num <= max_grams * den THEN RoundGrams1(num, den)
             ELSE RoundGrams1(max_grams, 1)

calculate_grams_for_calories(density, target, share, min_grams, max_grams) ==
    IF density = 0
    THEN min_grams
    ELSE LET sgn == IF density < 0 THEN -1 ELSE 1
             num == sgn * target
             den == sgn * density * share
             \* min(ideal_grams, max_grams)
             capped_is_ideal == num <= max_grams * den
             \* max(min_grams, ...)
             optimal_is_min ==
                 IF capped_is_ideal THEN num <= min_grams * den
                 ELSE max_grams <= min_grams
         IN  IF optimal_is_min THEN RoundGrams1(min_grams, 1)
             ELSE IF capped_is_ideal THEN RoundGrams1(num, den)
             ELSE RoundGrams1(max_grams, 1)

GramsInit ==
    /\ pc = "grams_call"
    /\ grams_args \in [calories_per_100g : (-MaxDensity)..MaxDensity,
                        target_calories : (-MaxSizing)..MaxSizing,
                        min_grams : 0..MaxSizing,
                        max_grams : 0..MaxSizing]
    /\ grams_args.min_grams <= grams_args.max_grams
    /\ grams_result = 0

GramsIdle ==
    /\ grams_args = [calories_per_100g |-> 0, target_calories |-> 0,
                     min_grams |-> 0, max_grams |-> 0]
    /\ grams_result = 0

\* One call of _calculate_grams_for_calories on the drawn arguments.
GramsCall ==
    /\ pc = "grams_call"
    /\ grams_result' = calculate_grams_for_calories(
            grams_args.calories_per_100g, grams_args.target_calories, 1,
            grams_args.min_grams, grams_args.max_grams)
    /\ pc' = "grams_done"
    /\ UNCHANGED grams_args

(***************************************************************************)
(* ServingSizeHelper                                                       *)
(***************************************************************************)
SERVING_SIZES_BY_MACRO(macro_nutrient) ==
    CASE macro_nutrient = "Protein" -> 150
      [] macro_nutrient = "Carbohydrate" -> 200
      [] macro_nutrient = "Fat" -> 15
      [] macro_nutrient = "Fiber" -> 100
      [] OTHER -> 100

\* str.lower() on the meal types the model draws
Lower(meal_type) ==
    CASE meal_type = "Fruit" -> "fruit"
      [] meal_type = "SIDE DISH" -> "side dish"
      [] OTHER -> meal_type

get_typical_serving_size(macro_nutrient, meal_type) ==
    CASE Lower(meal_type) = "beverage" -> 250
      [] Lower(meal_type) = "fruit" -> 120
      [] Lower(meal_type) = "side dish" -> 100
      [] Lower(meal_type) = "breakfast or snack" -> 80
      [] Lower(meal_type) = "lunch or supper" -> 150
      [] OTHER -> SERVING_SIZES_BY_MACRO(macro_nutrient)

\* grams in 0.01 g, result in 0.1 serving: round(grams / typical_serving, 1)
calculate_servings(grams, macro_nutrient, meal_type) ==
    RoundHalfEven(grams, 10 * get_typical_serving_size(macro_nutrient, meal_type))

\* calculate_grams_from_servings that looks only at the macro-nutrient table
calculate_grams_from_servings_MacroOnly(servings, macro_nutrient, meal_type) ==
    10 * RoundHalfEven(10 * servings * SERVING_SIZES_BY_MACRO(macro_nutrient), 10)

\* servings in 0.1 serving, result in 0.01 g: round(servings * typical_serving, 1)
calculate_grams_from_servings(servings, macro_nutrient, meal_type) ==
    10 * RoundHalfEven(
            10 * servings * get_typical_serving_size(macro_nutrient, meal_type), 10)

MacroNames == {"Protein", "Carbohydrate", "Fat", "Fiber", "Vitamin"}

\* the five MealTypeEnum values, two spellings that lower() folds, and a meal
\* type that is in neither table
MealTypeSamples ==
    {"beverage", "fruit", "side dish", "breakfast or snack", "lunch or supper",
     "Fruit", "SIDE DISH", "dessert"}

\* gram amounts of the round trip (0.01 g): steps of a quarter gram, and two
\* portion sizes of the engine
ServingGramSamples == {25 * k : k \in 1..MaxGramSteps} \cup {23330, 40000}

ServingInit ==
    /\ pc = "servings_call"
    /\ serving_args \in [grams : ServingGramSamples, macro_nutrient : MacroNames,
                          meal_type : MealTypeSamples]
    /\ servings_result = 0
    /\ grams_from_servings = 0

ServingIdle ==
    /\ serving_args = [grams |-> 0, macro_nutrient |-> "", meal_type |-> ""]
    /\ servings_result = 0
    /\ grams_from_servings = 0

\* One call of calculate_servings on the drawn arguments.
ServingsCall ==
    /\ pc = "servings_call"
    /\ servings_result' = calculate_servings(
            serving_args.grams, serving_args.macro_nutrient, serving_args.meal_type)
    /\ pc' = "servings_done"
    /\ UNCHANGED <<serving_args, grams_from_servings>>

\* One call of calculate_grams_from_servings on the servings just computed.
GramsFromServingsCall ==
    /\ pc = "servings_done"
    /\ grams_from_servings' = calculate_grams_from_servings(
            servings_result, serving_args.macro_nutrient, serving_args.meal_type)
    /\ pc' = "round_trip_done"
    /\ UNCHANGED <<serving_args, servings_result>>

(***************************************************************************)
(* MealPlanHelpers._calculate_macros_for_portion, _create_selected_food    *)
(* Both are called with reference_portion_grams left at its default, 100.  *)
(***************************************************************************)
\* breakdown.<nutrient>.amount raises AttributeError when the nutrient is None
MacrosRaise(food) ==
    \/ food.breakdown.protein.is_none
    \/ food.breakdown.carbohydrate.is_none
    \/ food.breakdown.fat.is_none
    \/ food.breakdown.fiber.is_none

\* round(amount * grams / 100, 1) in 0.01 g, grams in 0.01 g
PortionOf(amount, grams) == 10 * RoundHalfEven(amount * grams, 1000)

calculate_macros_for_portion(food, grams) ==
    [protein_g |-> PortionOf(food.breakdown.protein.amount, grams),
     carbs_g |-> PortionOf(food.breakdown.carbohydrate.amount, grams),
     fat_g |-> PortionOf(food.breakdown.fat.amount, grams),
     fiber_g |-> PortionOf(food.breakdown.fiber.amount, grams)]

create_selected_food(food, grams) ==
    [id |-> food.food_id,
     grams |-> grams,
     servings |-> calculate_servings(grams, food.macro_nutrient, food.meal_type),
     calories_per_100g |-> food.total,
     \* round((grams / 100) * calories_per_100g, 1) in 0.0001 kcal
     total_calories |-> 1000 * RoundHalfEven(grams * food.total, 1000),
     macros |-> calculate_macros_for_portion(food, grams)]

(***************************************************************************)
(* MealPlanHelpers._add_or_update_food                                     *)
(***************************************************************************)
\* index of the first entry the for loop finds with the given id, 0 if none
FirstWithId(items, id) ==
    IF \E k \in 1..Len(items) : items[k].id = id
    THEN CHOOSE k \in 1..Len(items) :
            /\ items[k].id = id
            /\ \A j \in 1..(k - 1) : items[j].id # id
    ELSE 0

\* MergeInto that forgets the fiber_g += line
MergeInto_NoFiber(existing_food, added) ==
    [existing_food EXCEPT
        !.grams = @ + added.grams,
        !.servings = @ + added.servings,
        !.total_calories = @ + added.total_calories,
        !.macros = [protein_g |-> @.protein_g + added.macros.protein_g,
                    carbs_g |-> @.carbs_g + added.macros.carbs_g,
                    fat_g |-> @.fat_g + added.macros.fat_g,
                    fiber_g |-> @.fiber_g]]

\* the existing entry after the += assignments
MergeInto(existing_food, added) ==
    [existing_food EXCEPT
        !.grams = @ + added.grams,
        !.servings = @ + added.servings,
        !.total_calories = @ + added.total_calories,
        !.macros = [protein_g |-> @.protein_g + added.macros.protein_g,
                    carbs_g |-> @.carbs_g + added.macros.carbs_g,
                    fat_g |-> @.fat_g + added.macros.fat_g,
                    fiber_g |-> @.fiber_g + added.macros.fiber_g]]

\* _add_or_update_food without the search for an existing entry
add_or_update_food_AlwaysAppend(items, added) == Append(items, added)

\* the meal list after the call
add_or_update_food(items, added) ==
    LET k == FirstWithId(items, added.id)
    IN  IF k = 0 THEN Append(items, added)
        ELSE [items EXCEPT ![k] = MergeInto(@, added)]

\* the tuple the call returns
add_or_update_return(added) ==
    [calories |-> added.total_calories, macros |-> added.macros]

NoSelection ==
    [id |-> "", grams |-> 0, servings |-> 0, calories_per_100g |-> 0,
     total_calories |-> 0,
     macros |-> [protein_g |-> 0, carbs_g |-> 0, fat_g |-> 0, fiber_g |-> 0]]

ZeroMacros == [protein_g |-> 0, carbs_g |-> 0, fat_g |-> 0, fiber_g |-> 0]

MergeInit ==
    /\ meal_items = <<>>
    /\ new_food = NoSelection
    /\ add_result = [calories |-> 0, macros |-> ZeroMacros]
    /\ add_calls = 0

\* portion sizes the merge check draws from (0.01 g): the gram ranges' ends
\* and a fractional amount
MergeGrams == {8000, 15050, 40000}

\* One call of _add_or_update_food with a freshly created SelectedFood.
AddCall ==
    /\ pc = "merge"
    /\ add_calls < MaxAddCalls
    /\ \E k \in 1..Len(FoodUniverse), g \in MergeGrams :
          /\ ~MacrosRaise(FoodUniverse[k])
          /\ new_food' = create_selected_food(FoodUniverse[k], g)
    /\ meal_items' = add_or_update_food(meal_items, new_food')
    /\ add_result' = add_or_update_return(new_food')
    /\ add_calls' = add_calls + 1
    /\ pc' = pc

(***************************************************************************)
(* MealPlanHelpers: the per-goal tables                                    *)
(***************************************************************************)
BodyGoalNames == {"WEIGHT_LOSS", "MUSCLE_GAIN", "MAINTENANCE"}

\* CALORIE_DISTRIBUTION with the muscle-gain snack share in every row
CALORIE_DISTRIBUTION_SnacksTen(goal) ==
    CASE goal = "WEIGHT_LOSS" ->
            [breakfast |-> 30, lunch |-> 35, supper |-> 30, snacks |-> 10]
      [] goal = "MUSCLE_GAIN" ->
            [breakfast |-> 25, lunch |-> 35, supper |-> 30, snacks |-> 10]
      [] goal = "MAINTENANCE" ->
            [breakfast |-> 30, lunch |-> 35, supper |-> 30, snacks |-> 10]

\* fractions of the daily target, in percent
CALORIE_DISTRIBUTION(goal) ==
    CASE goal = "WEIGHT_LOSS" ->
            [breakfast |-> 30, lunch |-> 35, supper |-> 30, snacks |-> 5]
      [] goal = "MUSCLE_GAIN" ->
            [breakfast |-> 25, lunch |-> 35, supper |-> 30, snacks |-> 10]
      [] goal = "MAINTENANCE" ->
            [breakfast |-> 30, lunch |-> 35, supper |-> 30, snacks |-> 5]

\* The table stores its fractions as IEEE-754 doubles.  A double d with
\* 0 <= d < 2 is a whole multiple of 2^-57 here, written hi * 2^28 + lo.
Limb == 2 ^ 28

Double(hi, lo) == [hi |-> hi, lo |-> lo]

\* the double a fraction literal of the table denotes: 0.05, 0.10, 0.25,
\* 0.30, 0.35
ShareAsDouble(percent) ==
    CASE percent = 5 -> Double(26843545, 161061274)
      [] percent = 10 -> Double(53687091, 53687092)
      [] percent = 25 -> Double(134217728, 0)
      [] percent = 30 -> Double(161061273, 161061272)
      [] percent = 35 -> Double(187904819, 53687088)

\* grams
GRAMS_RANGES(goal) ==
    CASE goal = "WEIGHT_LOSS" ->
            [main_min_grams |-> 100, main_max_grams |-> 200,
             side_min_grams |-> 80, side_max_grams |-> 100]
      [] goal = "MUSCLE_GAIN" ->
            [main_min_grams |-> 200, main_max_grams |-> 400,
             side_min_grams |-> 100, side_max_grams |-> 200]
      [] goal = "MAINTENANCE" ->
            [main_min_grams |-> 150, main_max_grams |-> 300,
             side_min_grams |-> 80, side_max_grams |-> 150]

(***************************************************************************)
(* MealPlanHelpers._categorize_foods                                       *)
(***************************************************************************)
\* the words the substring tests of _categorize_foods find in a meal type
MealTypeWords(meal_type) ==
    CASE meal_type = "breakfast or snack" -> {"breakfast", "snack"}
      [] meal_type = "lunch or supper" -> {"lunch", "supper"}
      [] meal_type = "fruit" -> {"fruit"}
      [] meal_type = "beverage" -> {"beverage"}
      [] meal_type = "side dish" -> {"side"}
      [] meal_type = "breakfast, beverage, fruit" -> {"breakfast", "beverage", "fruit"}
      [] OTHER -> {}

RECURSIVE Bucket(_, _)
Bucket(foods, words) ==
    IF foods = <<>> THEN <<>>
    ELSE IF MealTypeWords(Head(foods).meal_type) \cap words # {}
         THEN <<Head(foods)>> \o Bucket(Tail(foods), words)
         ELSE Bucket(Tail(foods), words)

categorize_foods(foods) ==
    [breakfast |-> Bucket(foods, {"breakfast", "snack"}),
     lunch_supper |-> Bucket(foods, {"lunch", "supper"}),
     fruits |-> Bucket(foods, {"fruit"}),
     beverages |-> Bucket(foods, {"beverage"}),
     side_dishes |-> Bucket(foods, {"side"})]

(***************************************************************************)
(* MealPlanHelpers._select_food_with_priority                              *)
(* The result is the set of foods random.choice can return; the empty set  *)
(* stands for the None returned for an empty list.                         *)
(***************************************************************************)
\* position (from 0) of foods[a] in sorted(foods, key=total, reverse=descending)
SortedPosition(foods, a, descending) ==
    Cardinality({b \in 1..Len(foods) :
        \/ IF descending THEN foods[b].total > foods[a].total
                         ELSE foods[b].total < foods[a].total
        \/ foods[b].total = foods[a].total /\ b < a})

\* ThirdOf that takes half of the list: max(1, len(sorted_foods) // 2)
ThirdOf_Half(foods) == IF Len(foods) \div 2 > 1 THEN Len(foods) \div 2 ELSE 1

\* max(1, len(sorted_foods) // 3)
ThirdOf(foods) == IF Len(foods) \div 3 > 1 THEN Len(foods) \div 3 ELSE 1

select_food_with_priority(foods, goal, prefer_high_calorie) ==
    IF foods = <<>> THEN {}
    ELSE IF goal = "MUSCLE_GAIN" /\ prefer_high_calorie
         THEN {foods[a] : a \in {b \in 1..Len(foods) :
                                    SortedPosition(foods, b, TRUE) < ThirdOf(foods)}}
    ELSE IF goal = "WEIGHT_LOSS" /\ ~prefer_high_calorie
         THEN {foods[a] : a \in {b \in 1..Len(foods) :
                                    SortedPosition(foods, b, FALSE) < ThirdOf(foods)}}
    ELSE Range(foods)

(***************************************************************************)
(* MealPlanHelpers.generate_user_meal_plan                                 *)
(*                                                                         *)
(* The seven day iterations share no state: a finished day_plan is only    *)
(* appended to meal_plan and read again for the weekly log line.  The      *)
(* model therefore keeps the full day_plan of the day being built, and of  *)
(* each appended day its name; every property of a day's content is        *)
(* checked on day_plan at the moment the day is complete.                  *)
(***************************************************************************)
days_of_the_week ==
    <<"Monday", "Tuesday", "Wednesday", "Thursday", "Friday", "Saturday", "Sunday">>

MealNames == {"breakfast", "lunch", "supper"}

EmptyDayPlan(day) ==
    [day |-> day,
     meal_plan |-> [breakfast |-> <<>>, lunch |-> <<>>, supper |-> <<>>],
     total_calories |-> 0,
     total_macros |-> ZeroMacros]

\* daily_calorie_target * distribution[meal], 0.0001 kcal
MealTarget(meal) ==
    (daily_calorie_target \div 100) * CALORIE_DISTRIBUTION(body_goal)[meal]

\* random.randint(lo, hi), in 0.01 g: the model draws the two ends
RandInt(lo, hi) == {100 * lo, 100 * hi}

AddMacros(a, b) ==
    [protein_g |-> a.protein_g + b.protein_g, carbs_g |-> a.carbs_g + b.carbs_g,
     fat_g |-> a.fat_g + b.fat_g, fiber_g |-> a.fiber_g + b.fiber_g]

PlanIdle ==
    /\ body_goal = ""
    /\ daily_calorie_target = 0
    /\ categorized_foods = categorize_foods(<<>>)
    /\ day_index = 0
    /\ day_plan = EmptyDayPlan("")
    /\ meal_plan = <<>>
    /\ meal_calories = [m \in MealNames |-> 0]
    /\ meal_macros = [m \in MealNames |-> ZeroMacros]
    /\ num_main_items = 0
    /\ i = 0
    /\ remaining_target = 0
    /\ available_supper_foods = <<>>

\* daily targets the engine is run with (kcal)
TargetSamples == {1200, 2000, 5000}

\* the goals the engine is called with: the three it knows and one it does not
GoalSamples == BodyGoalNames \cup {"BULKING"}

PlanInit ==
    /\ pc = "generate"
    /\ food_list \in OrderedCatalogues(MaxPlanFoods) \cup {SelectionCatalogue}
    /\ body_goal \in GoalSamples
    /\ daily_calorie_target \in {10000 * t : t \in TargetSamples}
    /\ categorized_foods = categorize_foods(<<>>)
    /\ day_index = 0
    /\ day_plan = EmptyDayPlan("")
    /\ meal_plan = <<>>
    /\ meal_calories = [m \in MealNames |-> 0]
    /\ meal_macros = [m \in MealNames |-> ZeroMacros]
    /\ num_main_items = 0
    /\ i = 0
    /\ remaining_target = 0
    /\ available_supper_foods = <<>>

planLocals == <<num_main_items, i, remaining_target>>
planInputs == <<food_list, body_goal, daily_calorie_target, categorized_foods>>

\* Generate whose categorization takes the foods out of the caller's list
Generate_DrainsCatalogue ==
    /\ pc = "generate"
    /\ body_goal' = IF body_goal \in BodyGoalNames THEN body_goal ELSE "MAINTENANCE"
    /\ categorized_foods' = categorize_foods(food_list)
    /\ food_list' = <<>>
    /\ pc' = "day"
    /\ UNCHANGED <<daily_calorie_target, day_index, day_plan, meal_plan,
                   meal_calories, meal_macros, planLocals, available_supper_foods>>

\* Lines 294-318: default the goal, read the tables, categorize the foods.
Generate ==
    /\ pc = "generate"
    /\ body_goal' = IF body_goal \in BodyGoalNames THEN body_goal ELSE "MAINTENANCE"
    /\ categorized_foods' = categorize_foods(food_list)
    /\ pc' = "day"
    /\ UNCHANGED <<food_list, daily_calorie_target, day_index, day_plan, meal_plan,
                   meal_calories, meal_macros, planLocals, available_supper_foods>>

\* Lines 324-338: the head of a day iteration.
BeginDay ==
    /\ pc = "day"
    /\ day_index < Len(days_of_the_week)
    /\ day_plan' = EmptyDayPlan(days_of_the_week[day_index + 1])
    /\ meal_calories' = [m \in MealNames |-> 0]
    /\ meal_macros' = [m \in MealNames |-> ZeroMacros]
    /\ pc' = "breakfast"
    /\ UNCHANGED <<planInputs, day_index, meal_plan, planLocals,
                   available_supper_foods>>

\* BeginMeal that goes on to the meal's extras when the bucket is empty
BeginMeal_ExtrasAnyway(meal, bucket, skip_pc) ==
    /\ pc = meal
    /\ IF bucket # <<>>
       THEN /\ \E n \in 1..2 : num_main_items' = n
            /\ i' = 0
            /\ remaining_target' = MealTarget(meal)
            /\ pc' = meal \o "_main"
       ELSE /\ pc' = IF meal = "breakfast" THEN "breakfast_beverage"
                     ELSE meal \o "_side"
            /\ UNCHANGED planLocals
    /\ UNCHANGED <<planInputs, day_index, day_plan, meal_plan, meal_calories,
                   meal_macros>>

\* The head of a meal: the bucket test and the draw of num_main_items.
BeginMeal(meal, bucket, skip_pc) ==
    /\ pc = meal
    /\ IF bucket # <<>>
       THEN /\ \E n \in 1..2 : num_main_items' = n
            /\ i' = 0
            /\ remaining_target' = MealTarget(meal)
            /\ pc' = meal \o "_main"
       ELSE /\ pc' = skip_pc
            /\ UNCHANGED planLocals
    /\ UNCHANGED <<planInputs, day_index, day_plan, meal_plan, meal_calories,
                   meal_macros>>

\* _create_selected_food + _add_or_update_food + the accumulator updates;
\* raises (AttributeError) when the food's breakdown lacks a nutrient.
AddSelection(meal, food, grams, next_pc) ==
    IF MacrosRaise(food)
    THEN /\ pc' = "raised"
         /\ UNCHANGED <<day_plan, meal_calories, meal_macros>>
    ELSE LET selected_food == create_selected_food(food, grams)
             returned == add_or_update_return(selected_food)
         IN  /\ day_plan' = [day_plan EXCEPT !.meal_plan[meal] =
                                add_or_update_food(@, selected_food)]
             /\ meal_calories' = [meal_calories EXCEPT ![meal] = @ + returned.calories]
             /\ meal_macros' = [meal_macros EXCEPT ![meal] = AddMacros(@, returned.macros)]
             /\ pc' = next_pc

\* MainItem that sizes every item for MealTarget / num_main_items
MainItem_EvenSplit(meal, candidates, next_pc) ==
    /\ pc = meal \o "_main"
    /\ i < num_main_items
    /\ \E food \in select_food_with_priority(candidates, body_goal,
                                             body_goal = "MUSCLE_GAIN") :
        LET grams == calculate_grams_for_calories(
                        food.total, MealTarget(meal), num_main_items,
                        100 * GRAMS_RANGES(body_goal).main_min_grams,
                        100 * GRAMS_RANGES(body_goal).main_max_grams)
        IN  /\ AddSelection(meal, food, grams,
                            IF i + 1 = num_main_items THEN next_pc ELSE pc)
            /\ remaining_target' =
                 IF MacrosRaise(food) THEN remaining_target
                 ELSE remaining_target - create_selected_food(food, grams).total_calories
            /\ i' = IF MacrosRaise(food) THEN i ELSE i + 1
    /\ UNCHANGED <<planInputs, day_index, meal_plan, num_main_items,
                   available_supper_foods>>

\* One iteration of a main-item loop.
MainItem(meal, candidates, next_pc) ==
    /\ pc = meal \o "_main"
    /\ i < num_main_items
    /\ \E food \in select_food_with_priority(candidates, body_goal,
                                             body_goal = "MUSCLE_GAIN") :
        LET grams == calculate_grams_for_calories(
                        food.total, remaining_target, num_main_items - i,
                        100 * GRAMS_RANGES(body_goal).main_min_grams,
                        100 * GRAMS_RANGES(body_goal).main_max_grams)
        IN  /\ AddSelection(meal, food, grams,
                            IF i + 1 = num_main_items THEN next_pc ELSE pc)
            /\ remaining_target' =
                 IF MacrosRaise(food) THEN remaining_target
                 ELSE remaining_target - create_selected_food(food, grams).total_calories
            /\ i' = IF MacrosRaise(food) THEN i ELSE i + 1
    /\ UNCHANGED <<planInputs, day_index, meal_plan, num_main_items,
                   available_supper_foods>>

\* An optional extra (beverage, side dish): bucket test, coin, choice, grams.
OptionalExtra(at_pc, meal, bucket, gram_choices, next_pc) ==
    /\ pc = at_pc
    /\ \E coin \in BOOLEAN :
         IF bucket # <<>> /\ coin
         THEN \E food \in Range(bucket), grams \in gram_choices :
                 AddSelection(meal, food, grams, next_pc)
         ELSE /\ pc' = next_pc
              /\ UNCHANGED <<day_plan, meal_calories, meal_macros>>
    /\ UNCHANGED <<planInputs, day_index, meal_plan, planLocals,
                   available_supper_foods>>

BeginBreakfast ==
    /\ BeginMeal("breakfast", categorized_foods.breakfast, "lunch")
    /\ UNCHANGED available_supper_foods

BreakfastMain == MainItem("breakfast", categorized_foods.breakfast, "breakfast_beverage")

\* Lines 376-390
BreakfastBeverage ==
    OptionalExtra("breakfast_beverage", "breakfast", categorized_foods.beverages,
                  RandInt(200, 300), "breakfast_fruit")

\* BreakfastFruit without the breakfast_calories < breakfast_target * 0.9 test
BreakfastFruit_AnyCalories ==
    /\ pc = "breakfast_fruit"
    /\ IF categorized_foods.fruits # <<>>
       THEN \E food \in Range(categorized_foods.fruits), grams \in RandInt(100, 150) :
               AddSelection("breakfast", food, grams, "lunch")
       ELSE /\ pc' = "lunch"
            /\ UNCHANGED <<day_plan, meal_calories, meal_macros>>
    /\ UNCHANGED <<planInputs, day_index, meal_plan, planLocals,
                   available_supper_foods>>

\* Lines 392-406: no random draw decides the fruit, only the calorie test.
BreakfastFruit ==
    /\ pc = "breakfast_fruit"
    /\ IF /\ categorized_foods.fruits # <<>>
          /\ 10 * meal_calories.breakfast < 9 * MealTarget("breakfast")
       THEN \E food \in Range(categorized_foods.fruits), grams \in RandInt(100, 150) :
               AddSelection("breakfast", food, grams, "lunch")
       ELSE /\ pc' = "lunch"
            /\ UNCHANGED <<day_plan, meal_calories, meal_macros>>
    /\ UNCHANGED <<planInputs, day_index, meal_plan, planLocals,
                   available_supper_foods>>

BeginLunch ==
    /\ BeginMeal("lunch", categorized_foods.lunch_supper, "supper")
    /\ UNCHANGED available_supper_foods

LunchMain == MainItem("lunch", categorized_foods.lunch_supper, "lunch_side")

\* Lines 446-463
LunchSide ==
    OptionalExtra("lunch_side", "lunch", categorized_foods.side_dishes,
                  RandInt(GRAMS_RANGES(body_goal).side_min_grams,
                          GRAMS_RANGES(body_goal).side_max_grams),
                  "lunch_beverage")

\* LunchBeverage that draws the grams like the breakfast beverage does
LunchBeverage_DrawsGrams ==
    OptionalExtra("lunch_beverage", "lunch", categorized_foods.beverages,
                  RandInt(200, 300), "supper")

\* Lines 465-479
LunchBeverage ==
    OptionalExtra("lunch_beverage", "lunch", categorized_foods.beverages,
                  {100 * 250}, "supper")

\* [f for f in lunch_supper if f.food_id not in lunch_food_ids]
RECURSIVE NotInLunch(_, _)
NotInLunch(foods, lunch_food_ids) ==
    IF foods = <<>> THEN <<>>
    ELSE IF Head(foods).food_id \notin lunch_food_ids
         THEN <<Head(foods)>> \o NotInLunch(Tail(foods), lunch_food_ids)
         ELSE NotInLunch(Tail(foods), lunch_food_ids)

\* BeginSupper that hands the whole bucket to the supper loop
BeginSupper_WholeBucket ==
    /\ BeginMeal("supper", categorized_foods.lunch_supper, "day_totals")
    /\ available_supper_foods' =
         IF categorized_foods.lunch_supper = <<>> THEN available_supper_foods
         ELSE categorized_foods.lunch_supper

\* Lines 485-497
BeginSupper ==
    /\ BeginMeal("supper", categorized_foods.lunch_supper, "day_totals")
    /\ available_supper_foods' =
         IF categorized_foods.lunch_supper = <<>> THEN available_supper_foods
         ELSE LET lunch_food_ids == {item.id : item \in Range(day_plan.meal_plan.lunch)}
                  others == NotInLunch(categorized_foods.lunch_supper, lunch_food_ids)
              IN  IF others = <<>> THEN categorized_foods.lunch_supper ELSE others

SupperMain == MainItem("supper", available_supper_foods, "supper_side")

\* SupperSide that draws the grams from the main-item range
SupperSide_MainRange ==
    OptionalExtra("supper_side", "supper", categorized_foods.side_dishes,
                  RandInt(GRAMS_RANGES(body_goal).main_min_grams,
                          GRAMS_RANGES(body_goal).main_max_grams),
                  "day_totals")

\* Lines 528-545
SupperSide ==
    OptionalExtra("supper_side", "supper", categorized_foods.side_dishes,
                  RandInt(GRAMS_RANGES(body_goal).side_min_grams,
                          GRAMS_RANGES(body_goal).side_max_grams),
                  "day_totals")

\* round(x, 1) of a kcal value in 0.0001 kcal / of a gram value in 0.01 g
RoundKcal1(x) == 1000 * RoundHalfEven(x, 1000)

\* round of the three accumulators' sum for one macro field
DayMacro(field) ==
    RoundGrams1(meal_macros.breakfast[field] + meal_macros.lunch[field]
                    + meal_macros.supper[field], 1)

\* FinishedDay whose day_total leaves out supper_calories
FinishedDay_WithoutSupper ==
    [day_plan EXCEPT
        !.total_calories = RoundKcal1(meal_calories.breakfast + meal_calories.lunch),
        !.total_macros = [protein_g |-> DayMacro("protein_g"),
                          carbs_g |-> DayMacro("carbs_g"),
                          fat_g |-> DayMacro("fat_g"),
                          fiber_g |-> DayMacro("fiber_g")]]

\* Lines 547-557: day_plan with its total_calories and total_macros set.
FinishedDay ==
    [day_plan EXCEPT
        !.total_calories = RoundKcal1(meal_calories.breakfast
                               + meal_calories.lunch + meal_calories.supper),
        !.total_macros = [protein_g |-> DayMacro("protein_g"),
                          carbs_g |-> DayMacro("carbs_g"),
                          fat_g |-> DayMacro("fat_g"),
                          fiber_g |-> DayMacro("fiber_g")]]

\* EndDay that appends a day only when one of its meals has a line
EndDay_SkipsEmptyDay ==
    /\ pc = "day_totals"
    /\ day_plan' = FinishedDay
    /\ meal_plan' =
         IF \A meal \in MealNames : day_plan.meal_plan[meal] = <<>>
         THEN meal_plan
         ELSE Append(meal_plan, FinishedDay.day)
    /\ day_index' = day_index + 1
    /\ pc' = "day"
    /\ UNCHANGED <<planInputs, meal_calories, meal_macros, planLocals,
                   available_supper_foods>>

\* Lines 547-559: the day totals and meal_plan.append(day_plan).
EndDay ==
    /\ pc = "day_totals"
    /\ day_plan' = FinishedDay
    /\ meal_plan' = Append(meal_plan, FinishedDay.day)
    /\ day_index' = day_index + 1
    /\ pc' = "day"
    /\ UNCHANGED <<planInputs, meal_calories, meal_macros, planLocals,
                   available_supper_foods>>

\* Lines 561-567: the loop is over; the weekly log line and the return.
ReturnPlan ==
    /\ pc = "day"
    /\ day_index = Len(days_of_the_week)
    /\ pc' = "returned"
    /\ UNCHANGED <<planVars, food_list>>

(***************************************************************************)
(* Two runs of generate_user_meal_plan on one catalogue                    *)
(*                                                                         *)
(* The parameters and locals of a run live in its own frame; the list      *)
(* object food_list, and the FoodRead objects in it, are the caller's and  *)
(* here both runs are handed the same list.  The variables of the engine   *)
(* hold the frame of the run that is executing, parked the frame of the    *)
(* other one; SwitchRun hands the processor over, at any step.             *)
(***************************************************************************)
\* the frame of the run that is executing
RunFrame ==
    [pc |-> pc, body_goal |-> body_goal,
     daily_calorie_target |-> daily_calorie_target,
     categorized_foods |-> categorized_foods, day_index |-> day_index,
     day_plan |-> day_plan, meal_plan |-> meal_plan,
     meal_calories |-> meal_calories, meal_macros |-> meal_macros,
     num_main_items |-> num_main_items, i |-> i,
     remaining_target |-> remaining_target,
     available_supper_foods |-> available_supper_foods]

\* the frame of a run that was called and has not executed a statement
CalledFrame(goal, target) ==
    [pc |-> "generate", body_goal |-> goal, daily_calorie_target |-> target,
     categorized_foods |-> categorize_foods(<<>>), day_index |-> 0,
     day_plan |-> EmptyDayPlan(""), meal_plan |-> <<>>,
     meal_calories |-> [m \in MealNames |-> 0],
     meal_macros |-> [m \in MealNames |-> ZeroMacros],
     num_main_items |-> 0, i |-> 0, remaining_target |-> 0,
     available_supper_foods |-> <<>>]

RunsIdle == parked = [pc |-> ""] /\ active_run = 0

\* the catalogue both runs are handed: a breakfast food and a dish
RunCatalogue == PickFrom({1, 2}, 1)

\* the first run plans for MAINTENANCE at 2000 kcal, the second for
\* WEIGHT_LOSS at 1200 kcal
RunsInit ==
    /\ food_list = RunCatalogue
    /\ pc = "generate"
    /\ body_goal = "MAINTENANCE"
    /\ daily_calorie_target = 10000 * 2000
    /\ categorized_foods = categorize_foods(<<>>)
    /\ day_index = 0
    /\ day_plan = EmptyDayPlan("")
    /\ meal_plan = <<>>
    /\ meal_calories = [m \in MealNames |-> 0]
    /\ meal_macros = [m \in MealNames |-> ZeroMacros]
    /\ num_main_items = 0
    /\ i = 0
    /\ remaining_target = 0
    /\ available_supper_foods = <<>>
    /\ parked = CalledFrame("WEIGHT_LOSS", 10000 * 1200)
    /\ active_run = 1

\* the processor goes to the other run
SwitchRun ==
    /\ active_run \in {1, 2}
    /\ parked' = RunFrame
    /\ active_run' = 3 - active_run
    /\ pc' = parked.pc
    /\ body_goal' = parked.body_goal
    /\ daily_calorie_target' = parked.daily_calorie_target
    /\ categorized_foods' = parked.categorized_foods
    /\ day_index' = parked.day_index
    /\ day_plan' = parked.day_plan
    /\ meal_plan' = parked.meal_plan
    /\ meal_calories' = parked.meal_calories
    /\ meal_macros' = parked.meal_macros
    /\ num_main_items' = parked.num_main_items
    /\ i' = parked.i
    /\ remaining_target' = parked.remaining_target
    /\ available_supper_foods' = parked.available_supper_foods
    /\ UNCHANGED food_list

MetricsIdle == user_metrics = <<>> /\ metrics_requests = <<>>

(***************************************************************************)
(* TDEECalculator                                                          *)
(* weight_kg is a whole number of kilograms and body_fat_percentage a      *)
(* whole percentage; lean body mass is in 0.01 kg, BMR in 0.001 kcal and   *)
(* the TDEE calculate_tdee returns in 0.01 kcal.  An activity multiplier   *)
(* is in units of 1/40 (1.2 = 48/40, 1.375 = 55/40, ...).                  *)
(* adjust_for_body_goal takes and returns 0.0001 kcal.                     *)
(***************************************************************************)
ACTIVITY_MULTIPLIERS ==
    [sedentary |-> 48, lightly_active |-> 55, moderately_active |-> 62,
     very_active |-> 69, extra_active |-> 76]

\* weight_kg * (1 - body_fat_percentage / 100)
calculate_lean_body_mass(weight_kg, body_fat_percentage) ==
    weight_kg * (100 - body_fat_percentage)

\* 370 + (21.6 * lean_body_mass_kg)
calculate_bmr_katch_mcardle(lean_body_mass) == 370000 + 216 * lean_body_mass

\* calculate_tdee whose fallback multiplier is 1.0
calculate_tdee_DefaultOne(weight_kg, body_fat_percentage, activity_level) ==
    LET lbm == calculate_lean_body_mass(weight_kg, body_fat_percentage)
        bmr == calculate_bmr_katch_mcardle(lbm)
        multiplier == IF activity_level \in DOMAIN ACTIVITY_MULTIPLIERS
                      THEN ACTIVITY_MULTIPLIERS[activity_level] ELSE 40
    IN  RoundHalfEven(bmr * multiplier, 400)

calculate_tdee(weight_kg, body_fat_percentage, activity_level) ==
    LET lbm == calculate_lean_body_mass(weight_kg, body_fat_percentage)
        bmr == calculate_bmr_katch_mcardle(lbm)
        \* ACTIVITY_MULTIPLIERS.get(activity_level, 1.2)
        multiplier == IF activity_level \in DOMAIN ACTIVITY_MULTIPLIERS
                      THEN ACTIVITY_MULTIPLIERS[activity_level] ELSE 48
        \* round(bmr * multiplier, 2)
    IN  RoundHalfEven(bmr * multiplier, 400)

\* adjust_for_body_goal whose adjustments.get default is the weight-loss cut
adjust_for_body_goal_UnknownGoalCuts(tdee, goal) ==
    LET adjustment == CASE goal = "WEIGHT_LOSS" -> -500
                        [] goal = "MUSCLE_GAIN" -> 400
                        [] goal = "MAINTENANCE" -> 0
                        [] OTHER -> -500
    IN  100 * RoundHalfEven(tdee + 10000 * adjustment, 100)

adjust_for_body_goal(tdee, goal) ==
    LET adjustment == CASE goal = "WEIGHT_LOSS" -> -500
                        [] goal = "MUSCLE_GAIN" -> 400
                        [] goal = "MAINTENANCE" -> 0
                        [] OTHER -> 0
    \* round(adjusted_calories, 2)
    IN  100 * RoundHalfEven(tdee + 10000 * adjustment, 100)

\* body_fat_percentage values of the calculate_tdee check
BodyFatSamples == {3, 20, 25, 60}

\* the five keys of ACTIVITY_MULTIPLIERS and a level that is not a key
ActivityLevelSamples ==
    {"sedentary", "lightly_active", "moderately_active", "very_active",
     "extra_active", "athlete"}

\* tdee values handed to adjust_for_body_goal besides the one just computed
\* (0.0001 kcal): 0, 500, 1895.52, 2000.123, 2000.125, 4600.01
AdjustTdeeSamples == {0, 5000000, 18955200, 20001230, 20001250, 46000100}

\* goals handed to adjust_for_body_goal: the three it knows, a lower-case
\* spelling and an unknown one
AdjustGoalSamples == BodyGoalNames \cup {"weight_loss", "BULKING"}

TdeeInit ==
    /\ pc = "tdee_call"
    /\ tdee_args \in [weight_kg : 1..MaxWeightKg,
                       body_fat_percentage : BodyFatSamples,
                       activity_level : ActivityLevelSamples]
    /\ tdee_result = [lbm |-> 0, bmr |-> 0, tdee |-> 0]
    /\ adjust_args = [tdee |-> 0, body_goal |-> ""]
    /\ adjust_result = 0

TdeeIdle ==
    /\ tdee_args = [weight_kg |-> 0, body_fat_percentage |-> 0, activity_level |-> ""]
    /\ tdee_result = [lbm |-> 0, bmr |-> 0, tdee |-> 0]
    /\ adjust_args = [tdee |-> 0, body_goal |-> ""]
    /\ adjust_result = 0

\* One call of calculate_tdee on the drawn arguments.
CalculateTdee ==
    /\ pc = "tdee_call"
    /\ tdee_result' =
         LET lbm == calculate_lean_body_mass(tdee_args.weight_kg,
                                             tdee_args.body_fat_percentage)
         IN  [lbm |-> lbm,
              bmr |-> calculate_bmr_katch_mcardle(lbm),
              tdee |-> calculate_tdee(tdee_args.weight_kg,
                          tdee_args.body_fat_percentage, tdee_args.activity_level)]
    /\ pc' = "tdee_done"
    /\ UNCHANGED <<tdee_args, adjust_args, adjust_result>>

\* One call of adjust_for_body_goal, on the TDEE just computed or on a drawn one.
AdjustCall ==
    /\ pc = "tdee_done"
    /\ \E tdee \in {100 * tdee_result.tdee} \cup AdjustTdeeSamples,
          goal \in AdjustGoalSamples :
          /\ adjust_args' = [tdee |-> tdee, body_goal |-> goal]
          /\ adjust_result' = adjust_for_body_goal(tdee, goal)
    /\ pc' = "adjust_done"
    /\ UNCHANGED <<tdee_args, tdee_result>>

(***************************************************************************)
(* MealPlanController.suggest_meal_plan                                    *)
(*                                                                         *)
(* One request.  Optional values are records [is_none, value].  The call   *)
(* of generate_user_meal_plan is one step here: engine_calls records its   *)
(* arguments and its outcome is one of the outcomes Spec reaches (a plan   *)
(* returned, or the AttributeError of a food without a nutrient).          *)
(***************************************************************************)
Some(v) == [is_none |-> FALSE, value |-> v]
Nothing == [is_none |-> TRUE, value |-> 0]

NoResponse == [kind |-> "none", status_code |-> 0, status |-> "", payload |-> "",
               target_calories |-> Nothing]

\* raise HTTPException(status_code, detail): re-raised by `except HTTPException`
HttpError(code) == [kind |-> "raise", status_code |-> code, status |-> "",
                    payload |-> "detail", target_calories |-> Nothing]

\* return JSONResponse(status_code, SuggestMealPlanResponse(status="error", ...))
ErrorResponse(code, payload) ==
    [kind |-> "return", status_code |-> code, status |-> "error",
     payload |-> payload, target_calories |-> Nothing]

\* manual targets of a request (kcal), besides None
ManualTargetSamples == {0, 500, 1199, 1200, 5000, 5001}

\* calculated_tdee of the stored current metrics (0.01 kcal); the metrics
\* controller always stores a computed value
StoredTdeeSamples == {119999, 170000, 189552, 460000, 460001}

AuthorizationSamples == {"Bearer valid", "Bearer expired", "Basic"}

SuggestInit ==
    /\ pc = "suggest"
    /\ authorization \in AuthorizationSamples
    /\ meal_plan_preferences \in
         [body_goal : BodyGoalNames \cup {"Weight Loss"},
          dietary_restrictions : SUBSET {"vegan"},
          allergies : SUBSET {"gluten"},
          medical_conditions : SUBSET {"diabetes"},
          daily_calorie_target : {Nothing} \cup {Some(t) : t \in ManualTargetSamples},
          use_calculated_tdee : BOOLEAN]
    /\ db_user_metrics \in {Nothing} \cup {Some(100 * t) : t \in StoredTdeeSamples}
    /\ db_foods \in Catalogues(MaxDbFoods)
    /\ target_calories = Nothing
    /\ calculated_tdee = Nothing
    /\ response = NoResponse
    /\ filter_calls = 0
    /\ engine_calls = <<>>
    /\ food_list = <<>>
    /\ filtered_foods = <<>>

SuggestIdle ==
    /\ authorization = ""
    /\ meal_plan_preferences = Nothing
    /\ db_user_metrics = Nothing
    /\ db_foods = <<>>
    /\ target_calories = Nothing
    /\ calculated_tdee = Nothing
    /\ response = NoResponse
    /\ filter_calls = 0
    /\ engine_calls = <<>>

suggestInputs == <<authorization, meal_plan_preferences, db_user_metrics, db_foods>>

\* Lines 104-113: the Bearer prefix and validate_JWT.
Authorize ==
    /\ pc = "suggest"
    /\ IF authorization = "Basic"
       THEN /\ response' = HttpError(403) /\ pc' = "responded"
       ELSE IF authorization = "Bearer expired"
       THEN /\ response' = HttpError(401) /\ pc' = "responded"
       ELSE /\ response' = response /\ pc' = "validate_goal"
    /\ UNCHANGED <<suggestInputs, target_calories, calculated_tdee, filter_calls,
                   engine_calls, food_list, filtered_foods>>

\* Lines 115-120
ValidateGoal ==
    /\ pc = "validate_goal"
    /\ IF meal_plan_preferences.body_goal \notin BodyGoalNames
       THEN /\ response' = HttpError(400) /\ pc' = "responded"
       ELSE /\ response' = response /\ pc' = "resolve_target"
    /\ UNCHANGED <<suggestInputs, target_calories, calculated_tdee, filter_calls,
                   engine_calls, food_list, filtered_foods>>

\* Lines 122-161
ResolveTarget ==
    /\ pc = "resolve_target"
    /\ IF meal_plan_preferences.use_calculated_tdee
       THEN IF db_user_metrics.is_none
            THEN /\ response' = ErrorResponse(400, "empty list")
                 /\ pc' = "responded"
                 /\ UNCHANGED <<target_calories, calculated_tdee>>
            ELSE /\ calculated_tdee' = db_user_metrics
                 /\ target_calories' = Some(adjust_for_body_goal(
                        db_user_metrics.value, meal_plan_preferences.body_goal))
                 /\ response' = response
                 /\ pc' = "validate_target"
       ELSE IF \/ meal_plan_preferences.daily_calorie_target.is_none
               \/ meal_plan_preferences.daily_calorie_target.value = 0
            THEN /\ response' = HttpError(400)
                 /\ pc' = "responded"
                 /\ UNCHANGED <<target_calories, calculated_tdee>>
            ELSE /\ target_calories' =
                      Some(10000 * meal_plan_preferences.daily_calorie_target.value)
                 /\ response' = response
                 /\ pc' = "validate_target"
                 /\ UNCHANGED calculated_tdee
    /\ UNCHANGED <<suggestInputs, filter_calls, engine_calls, food_list,
                   filtered_foods>>

\* ValidateTarget without the upper limit
ValidateTarget_NoUpperLimit ==
    /\ pc = "validate_target"
    /\ IF target_calories.value < 10000 * 1200
       THEN /\ response' = HttpError(400) /\ pc' = "responded"
       ELSE /\ response' = response /\ pc' = "fetch_foods"
    /\ UNCHANGED <<suggestInputs, target_calories, calculated_tdee, filter_calls,
                   engine_calls, food_list, filtered_foods>>

\* Lines 163-174
ValidateTarget ==
    /\ pc = "validate_target"
    /\ IF target_calories.value < 10000 * 1200 \/ target_calories.value > 10000 * 5000
       THEN /\ response' = HttpError(400) /\ pc' = "responded"
       ELSE /\ response' = response /\ pc' = "fetch_foods"
    /\ UNCHANGED <<suggestInputs, target_calories, calculated_tdee, filter_calls,
                   engine_calls, food_list, filtered_foods>>

\* Lines 176-204: db.query(FoodModel).all() and the conversion to FoodRead.
FetchFoods ==
    /\ pc = "fetch_foods"
    /\ IF db_foods = <<>>
       THEN /\ response' = HttpError(404) /\ pc' = "responded"
            /\ UNCHANGED food_list
       ELSE /\ food_list' = db_foods
            /\ response' = response /\ pc' = "filter"
    /\ UNCHANGED <<suggestInputs, target_calories, calculated_tdee, filter_calls,
                   engine_calls, filtered_foods>>

\* Lines 209-223
FilterFoods ==
    /\ pc = "filter"
    /\ filter_calls' = filter_calls + 1
    /\ filtered_foods' = filter_by_dietary_requirements(
            meal_plan_preferences.dietary_restrictions,
            meal_plan_preferences.allergies,
            meal_plan_preferences.medical_conditions, food_list)
    /\ IF filtered_foods' = <<>>
       THEN /\ response' = [kind |-> "return", status_code |-> 200,
                            status |-> "warning", payload |-> "empty list",
                            target_calories |-> Nothing]
            /\ pc' = "responded"
       ELSE /\ response' = response /\ pc' = "generate_call"
    /\ UNCHANGED <<suggestInputs, target_calories, calculated_tdee, engine_calls,
                   food_list>>

\* GenerateCall whose payload carries calculated_tdee in the target_calories key
GenerateCall_ReportsTdee ==
    /\ pc = "generate_call"
    /\ engine_calls' = Append(engine_calls,
            [food_list |-> filtered_foods,
             daily_calorie_target |-> target_calories.value,
             body_goal |-> meal_plan_preferences.body_goal])
    /\ \E raised \in BOOLEAN :
         /\ raised => \E k \in 1..Len(filtered_foods) : MacrosRaise(filtered_foods[k])
         /\ response' =
              IF raised THEN ErrorResponse(500, "exception text")
              ELSE [kind |-> "return", status_code |-> 200, status |-> "success",
                    payload |-> "meal plan", target_calories |-> calculated_tdee]
    /\ pc' = "responded"
    /\ UNCHANGED <<suggestInputs, target_calories, calculated_tdee, filter_calls,
                   food_list, filtered_foods>>

\* Lines 227-259: the engine call and the success payload, or the generic
\* handler when the engine raises.
GenerateCall ==
    /\ pc = "generate_call"
    /\ engine_calls' = Append(engine_calls,
            [food_list |-> filtered_foods,
             daily_calorie_target |-> target_calories.value,
             body_goal |-> meal_plan_preferences.body_goal])
    /\ \E raised \in BOOLEAN :
         /\ raised => \E k \in 1..Len(filtered_foods) : MacrosRaise(filtered_foods[k])
         /\ response' =
              IF raised THEN ErrorResponse(500, "exception text")
              ELSE [kind |-> "return", status_code |-> 200, status |-> "success",
                    payload |-> "meal plan", target_calories |-> target_calories]
    /\ pc' = "responded"
    /\ UNCHANGED <<suggestInputs, target_calories, calculated_tdee, filter_calls,
                   food_list, filtered_foods>>

(***************************************************************************)
(* SubscriptionController and PaymentController                            *)
(*                                                                         *)
(* The subscriptions and payment_history tables of one user.  A datetime   *)
(* is a whole number of days, datetime.utcnow() is the clock utcnow, and a *)
(* column that is NULL holds None.  A payment_reference is the number of   *)
(* the payment row it was generated for.  Each handler runs in one         *)
(* database transaction and is one action.  The columns that are only      *)
(* written, with request data or the time of the call (payment_method,     *)
(* amount_paid, currency, metadata, cancelled_at, cancellation_reason),    *)
(* and the keys of the single user and subscription are left out.          *)
(***************************************************************************)
\* a nullable date column without a value
None == -1

\* timedelta(days=14) of start_trial
TrialDays == 14

\* timedelta(days=7) of process_subscription_expiry
GraceDays == 7

\* timedelta(days=30) of handle_payment_webhook
SubscriptionDays == 30

SubscriptionStatus == {"TRIAL", "ACTIVE", "GRACE_PERIOD", "EXPIRED", "CANCELLED"}

PaymentStatus == {"PENDING", "COMPLETED", "FAILED", "REFUNDED"}

MembershipIds == {"plus", "elite"}

SubscriptionIdle ==
    /\ subscriptions = <<>>
    /\ payment_history = <<>>
    /\ utcnow = 0

\* the tables before the user signs up
SubscriptionInit ==
    /\ pc = "subscription"
    /\ subscriptions = <<>>
    /\ payment_history = <<>>
    /\ utcnow = 0

\* a day passes; the clock counts the days since the user signed up
Tick ==
    /\ pc = "subscription"
    /\ subscriptions # <<>>
    /\ utcnow < MaxDay
    /\ utcnow' = utcnow + 1
    /\ UNCHANGED <<pc, subscriptions, payment_history>>

\* Lines 72-83: the row start_trial creates
TrialSubscription(membership_id, trial_start) ==
    [membership_id |-> membership_id,
     subscription_status |-> "TRIAL",
     trial_used |-> TRUE,
     trial_start_date |-> trial_start,
     trial_end_date |-> trial_start + TrialDays,
     subscription_start_date |-> trial_start,
     subscription_end_date |-> trial_start + TrialDays,
     auto_renew |-> TRUE,
     next_billing_date |-> None,
     payment_reference |-> None,
     grace_period_start_date |-> None,
     grace_period_end_date |-> None,
     grace_periods_used |-> 0]

\* start_trial: a request that fails the authorization, finds a subscription
\* of the user or finds no such membership changes nothing.
StartTrial ==
    /\ pc = "subscription"
    /\ \E authorized \in BOOLEAN, membership_id \in MembershipIds \cup {"none"} :
          subscriptions' =
             IF authorized /\ subscriptions = <<>> /\ membership_id \in MembershipIds
             THEN <<TrialSubscription(membership_id, utcnow)>>
             ELSE subscriptions
    /\ UNCHANGED <<pc, payment_history, utcnow>>

\* upgrade_subscription, lines 251-283
UpgradeSubscription ==
    /\ pc = "subscription"
    /\ \E authorized \in BOOLEAN, new_membership_id \in MembershipIds \cup {"none"} :
          subscriptions' =
             IF authorized /\ subscriptions # <<>> /\ new_membership_id \in MembershipIds
             THEN [subscriptions EXCEPT ![1].membership_id = new_membership_id]
             ELSE subscriptions
    /\ UNCHANGED <<pc, payment_history, utcnow>>

\* cancel_subscription, lines 325-345
CancelSubscription ==
    /\ pc = "subscription"
    /\ \E authorized \in BOOLEAN :
          subscriptions' =
             IF authorized /\ subscriptions # <<>>
             THEN [subscriptions EXCEPT ![1].subscription_status = "CANCELLED",
                                        ![1].auto_renew = FALSE]
             ELSE subscriptions
    /\ UNCHANGED <<pc, payment_history, utcnow>>

\* ExpireRow with a grace period after the second one
ExpireRow_ThirdGrace(subscription, now) ==
    LET grace == [subscription EXCEPT
                     !.subscription_status = "GRACE_PERIOD",
                     !.grace_period_start_date = now,
                     !.grace_period_end_date = now + GraceDays,
                     !.subscription_end_date = now + GraceDays]
    IN  IF subscription.subscription_status = "TRIAL"
        THEN [grace EXCEPT !.grace_periods_used = 1]
        ELSE IF subscription.subscription_status = "GRACE_PERIOD"
        THEN IF subscription.grace_periods_used < 3
             THEN [grace EXCEPT !.grace_periods_used = @ + 1]
             ELSE [subscription EXCEPT !.subscription_status = "EXPIRED"]
        ELSE IF subscription.auto_renew
             THEN [grace EXCEPT !.grace_periods_used = 1]
             ELSE [subscription EXCEPT !.subscription_status = "EXPIRED"]

\* Lines 391-421: the body of the loop over the expired subscriptions
ExpireRow(subscription, now) ==
    LET grace == [subscription EXCEPT
                     !.subscription_status = "GRACE_PERIOD",
                     !.grace_period_start_date = now,
                     !.grace_period_end_date = now + GraceDays,
                     !.subscription_end_date = now + GraceDays]
    IN  IF subscription.subscription_status = "TRIAL"
        THEN [grace EXCEPT !.grace_periods_used = 1]
        ELSE IF subscription.subscription_status = "GRACE_PERIOD"
        THEN IF subscription.grace_periods_used < 2
             THEN [grace EXCEPT !.grace_periods_used = 2]
             ELSE [subscription EXCEPT !.subscription_status = "EXPIRED"]
        ELSE IF subscription.auto_renew
             THEN [grace EXCEPT !.grace_periods_used = 1]
             ELSE [subscription EXCEPT !.subscription_status = "EXPIRED"]

\* Lines 381-388: the filter of the query
IsExpired(subscription, now) ==
    /\ subscription.subscription_end_date <= now
    /\ subscription.subscription_status \in {"TRIAL", "ACTIVE", "GRACE_PERIOD"}

\* process_subscription_expiry
ProcessExpiry ==
    /\ pc = "subscription"
    /\ subscriptions' =
          [k \in 1..Len(subscriptions) |->
              IF IsExpired(subscriptions[k], utcnow)
              THEN ExpireRow(subscriptions[k], utcnow)
              ELSE subscriptions[k]]
    /\ UNCHANGED <<pc, payment_history, utcnow>>

\* initiate_payment, lines 40-121: a PENDING payment row with its reference
InitiatePayment ==
    /\ pc = "subscription"
    /\ \E authorized \in BOOLEAN :
          payment_history' =
             IF authorized /\ subscriptions # <<>>
                  /\ Len(payment_history) < MaxPayments
             THEN Append(payment_history,
                         [payment_reference |-> Len(payment_history) + 1,
                          payment_status |-> "PENDING",
                          payment_date |-> None])
             ELSE payment_history
    /\ UNCHANGED <<pc, subscriptions, utcnow>>

\* PaidSubscription that always starts the period at the time of the webhook
PaidSubscription_FromNow(subscription, payment_reference, now) ==
    [subscription EXCEPT
        !.subscription_status = "ACTIVE",
        !.subscription_start_date = now,
        !.subscription_end_date = now + SubscriptionDays,
        !.next_billing_date = now + SubscriptionDays,
        !.payment_reference = payment_reference,
        !.grace_periods_used = 0,
        !.grace_period_start_date = None,
        !.grace_period_end_date = None]

\* Lines 177-197: the subscription after a completed payment
PaidSubscription(subscription, payment_reference, now) ==
    LET start_date == IF subscription.subscription_status = "GRACE_PERIOD"
                      THEN subscription.grace_period_end_date
                      ELSE now
        end_date == start_date + SubscriptionDays
    IN  [subscription EXCEPT
            !.subscription_status = "ACTIVE",
            !.subscription_start_date = start_date,
            !.subscription_end_date = end_date,
            !.next_billing_date = end_date,
            !.payment_reference = payment_reference,
            !.grace_periods_used = 0,
            !.grace_period_start_date = None,
            !.grace_period_end_date = None]

\* handle_payment_webhook with webhook_data.payment_reference and .status as
\* given; a reference no payment row has is answered with 404.
PaymentWebhook(payment_reference, status) ==
    LET found == payment_reference <= Len(payment_history)
    IN  /\ pc = "subscription"
        /\ payment_history' =
              IF found
              THEN [payment_history EXCEPT
                      ![payment_reference].payment_status = status,
                      ![payment_reference].payment_date =
                          IF status = "COMPLETED" THEN utcnow ELSE None]
              ELSE payment_history
        /\ subscriptions' =
              IF found /\ status = "COMPLETED" /\ subscriptions # <<>>
              THEN [subscriptions EXCEPT
                      ![1] = PaidSubscription(@, payment_reference, utcnow)]
              ELSE subscriptions
        /\ UNCHANGED <<pc, utcnow>>

\* the references a provider sends: those of the payment rows and one more
WebhookReferences == 1..(MaxPayments + 1)

HandlePaymentWebhook ==
    \E payment_reference \in WebhookReferences, status \in PaymentStatus :
        PaymentWebhook(payment_reference, status)

(***************************************************************************)
(* UserMetricsController                                                   *)
(* The user_metrics rows of one user, in the order they were inserted.     *)
(* Each request has its own database session (get_db_connection), so a     *)
(* call of create_user_metrics is two steps on the table: the query for    *)
(* the current row and, later, the commit of what the call decided from    *)
(* it; calls of two requests can take their steps in any order.            *)
(* update_user_metrics is taken as one step.  Of the columns, those that   *)
(* calculate_tdee reads, calculated_tdee and is_current are kept;          *)
(* weight_kg and body_fat_percentage are whole numbers here and            *)
(* calculated_tdee is in 0.01 kcal.                                        *)
(***************************************************************************)
\* UserMetricsCreate bodies
MetricsCreateSamples ==
    [weight_kg : {60, 80}, body_fat_percentage : {20},
     activity_level : {"sedentary", "very_active"}]

\* UserMetricsUpdate bodies; 0 and "" stand for a field that is None
MetricsUpdateSamples ==
    [weight_kg : {0, 60, 80}, body_fat_percentage : {0, 25},
     activity_level : {"", "sedentary", "very_active"}]

NoMetricsData == [weight_kg |-> 0, body_fat_percentage |-> 0, activity_level |-> ""]

\* a request that is not inside create_user_metrics
IdleRequest == [pc |-> "idle", existing_metrics |-> 0, metrics_data |-> NoMetricsData]

MetricsInit ==
    /\ pc = "metrics"
    /\ user_metrics = <<>>
    /\ metrics_requests = [r \in 1..2 |-> IdleRequest]

\* the rows the filter user_id == ..., is_current == True selects
CurrentMetrics == {k \in 1..Len(user_metrics) : user_metrics[k].is_current}

\* what .first() can return: one of the selected rows, or None (0)
FirstCurrent == IF CurrentMetrics = {} THEN {0} ELSE CurrentMetrics

RequestsInFlight == {r \in 1..2 : metrics_requests[r].pc = "queried"}

\* create_user_metrics, lines 43-46: the query for the current row
CreateQuery ==
    /\ pc = "metrics"
    /\ Len(user_metrics) + Cardinality(RequestsInFlight) < MaxMetricsRows
    /\ \E r \in 1..2, metrics_data \in MetricsCreateSamples,
          existing_metrics \in FirstCurrent :
          /\ metrics_requests[r].pc = "idle"
          /\ metrics_requests' =
                [metrics_requests EXCEPT
                    ![r] = [pc |-> "queried",
                            existing_metrics |-> existing_metrics,
                            metrics_data |-> metrics_data]]
    /\ UNCHANGED <<pc, user_metrics>>

\* create_user_metrics, lines 48-73: the row found is made not current, the
\* new row is added as current, and both are committed
CreateCommit ==
    /\ pc = "metrics"
    /\ \E r \in RequestsInFlight :
          LET existing_metrics == metrics_requests[r].existing_metrics
              metrics_data == metrics_requests[r].metrics_data
              tdee == calculate_tdee(metrics_data.weight_kg,
                                     metrics_data.body_fat_percentage,
                                     metrics_data.activity_level)
              new_metrics == [weight_kg |-> metrics_data.weight_kg,
                              body_fat_percentage |-> metrics_data.body_fat_percentage,
                              activity_level |-> metrics_data.activity_level,
                              calculated_tdee |-> tdee,
                              is_current |-> TRUE]
          IN  /\ user_metrics' =
                    Append(IF existing_metrics # 0
                           THEN [user_metrics EXCEPT
                                    ![existing_metrics].is_current = FALSE]
                           ELSE user_metrics,
                           new_metrics)
              /\ metrics_requests' = [metrics_requests EXCEPT ![r] = IdleRequest]
    /\ UNCHANGED pc

\* update_user_metrics, lines 187-206: the fields given replace the row's and
\* calculated_tdee is computed again from the row
UpdatedMetrics(current_metrics, metrics_data) ==
    LET weight_kg == IF metrics_data.weight_kg # 0
                     THEN metrics_data.weight_kg ELSE current_metrics.weight_kg
        body_fat_percentage == IF metrics_data.body_fat_percentage # 0
                               THEN metrics_data.body_fat_percentage
                               ELSE current_metrics.body_fat_percentage
        activity_level == IF metrics_data.activity_level # ""
                          THEN metrics_data.activity_level
                          ELSE current_metrics.activity_level
    IN  [current_metrics EXCEPT
            !.weight_kg = weight_kg,
            !.body_fat_percentage = body_fat_percentage,
            !.activity_level = activity_level,
            !.calculated_tdee =
                calculate_tdee(weight_kg, body_fat_percentage, activity_level)]

\* update_user_metrics; without a current row the answer is 404
UpdateUserMetrics ==
    /\ pc = "metrics"
    /\ \E metrics_data \in MetricsUpdateSamples, current_metrics \in FirstCurrent :
          user_metrics' =
             IF current_metrics = 0
             THEN user_metrics
             ELSE [user_metrics EXCEPT
                      ![current_metrics] = UpdatedMetrics(@, metrics_data)]
    /\ UNCHANGED <<pc, metrics_requests>>

(***************************************************************************)
(* Specifications                                                          *)
(***************************************************************************)
\* filter_by_dietary_requirements on drawn arguments
InitFilter ==
    FilterInit /\ GramsIdle /\ MergeInit /\ PlanIdle /\ SuggestIdle /\ TdeeIdle
        /\ ServingIdle /\ RunsIdle /\ SubscriptionIdle /\ MetricsIdle
NextFilter ==
    FilterCall /\ UNCHANGED <<gramsVars, mergeVars, planVars, suggestVars, tdeeVars,
                              servingVars, runVars, subscriptionVars, metricsVars>>
SpecFilter == InitFilter /\ [][NextFilter]_vars

\* _calculate_grams_for_calories on drawn arguments
InitGrams ==
    GramsInit /\ FilterIdle /\ MergeInit /\ PlanIdle /\ SuggestIdle /\ TdeeIdle
        /\ ServingIdle /\ RunsIdle /\ SubscriptionIdle /\ MetricsIdle
NextGrams ==
    GramsCall /\ UNCHANGED <<filterVars, mergeVars, planVars, suggestVars, tdeeVars,
                             servingVars, runVars, subscriptionVars, metricsVars>>
SpecGrams == InitGrams /\ [][NextGrams]_vars

\* _add_or_update_food called repeatedly on one meal list
InitMerge ==
    pc = "merge" /\ MergeInit /\ FilterIdle /\ GramsIdle /\ PlanIdle /\ SuggestIdle
        /\ TdeeIdle /\ ServingIdle /\ RunsIdle /\ SubscriptionIdle /\ MetricsIdle
NextMerge ==
    AddCall /\ UNCHANGED <<filterVars, gramsVars, planVars, suggestVars, tdeeVars,
                           servingVars, runVars, subscriptionVars, metricsVars>>
SpecMerge == InitMerge /\ [][NextMerge]_vars

\* calculate_tdee on drawn arguments, then adjust_for_body_goal
notTdeeVars == <<filterVars, gramsVars, mergeVars, planVars, suggestVars, servingVars, runVars, subscriptionVars, metricsVars>>
InitTdee ==
    TdeeInit /\ FilterIdle /\ GramsIdle /\ MergeInit /\ PlanIdle /\ SuggestIdle
        /\ ServingIdle /\ RunsIdle /\ SubscriptionIdle /\ MetricsIdle
NextTdee ==
    \/ CalculateTdee /\ UNCHANGED notTdeeVars
    \/ AdjustCall /\ UNCHANGED notTdeeVars
SpecTdee == InitTdee /\ [][NextTdee]_vars

\* calculate_servings on drawn arguments, then calculate_grams_from_servings
notServingVars == <<filterVars, gramsVars, mergeVars, planVars, suggestVars, tdeeVars,
                    runVars, subscriptionVars, metricsVars>>
InitServing ==
    ServingInit /\ FilterIdle /\ GramsIdle /\ MergeInit /\ PlanIdle /\ SuggestIdle
        /\ TdeeIdle /\ RunsIdle /\ SubscriptionIdle /\ MetricsIdle
NextServing ==
    \/ ServingsCall /\ UNCHANGED notServingVars
    \/ GramsFromServingsCall /\ UNCHANGED notServingVars
SpecServing == InitServing /\ [][NextServing]_vars

\* generate_user_meal_plan, one run
notPlanVars == <<dietary_restrictions, allergies, medical_conditions, filtered_foods,
                 gramsVars, mergeVars, suggestVars, tdeeVars, servingVars, runVars, subscriptionVars, metricsVars>>
Init ==
    /\ PlanInit
    /\ dietary_restrictions = {} /\ allergies = {} /\ medical_conditions = {}
    /\ filtered_foods = <<>>
    /\ GramsIdle /\ MergeInit /\ SuggestIdle /\ TdeeIdle /\ ServingIdle /\ RunsIdle /\ SubscriptionIdle /\ MetricsIdle
Next ==
    \/ Generate /\ UNCHANGED notPlanVars
    \/ BeginDay /\ UNCHANGED notPlanVars
    \/ BeginBreakfast /\ UNCHANGED notPlanVars
    \/ BreakfastMain /\ UNCHANGED notPlanVars
    \/ BreakfastBeverage /\ UNCHANGED notPlanVars
    \/ BreakfastFruit /\ UNCHANGED notPlanVars
    \/ BeginLunch /\ UNCHANGED notPlanVars
    \/ LunchMain /\ UNCHANGED notPlanVars
    \/ LunchSide /\ UNCHANGED notPlanVars
    \/ LunchBeverage /\ UNCHANGED notPlanVars
    \/ BeginSupper /\ UNCHANGED notPlanVars
    \/ SupperMain /\ UNCHANGED notPlanVars
    \/ SupperSide /\ UNCHANGED notPlanVars
    \/ EndDay /\ UNCHANGED notPlanVars
    \/ ReturnPlan /\ UNCHANGED notPlanVars
Spec == Init /\ [][Next]_vars

\* two runs of generate_user_meal_plan, interleaved step by step
notRunsVars == <<dietary_restrictions, allergies, medical_conditions, filtered_foods, gramsVars, mergeVars, suggestVars, tdeeVars, servingVars, subscriptionVars, metricsVars>>
InitRuns ==
    /\ RunsInit
    /\ dietary_restrictions = {} /\ allergies = {} /\ medical_conditions = {}
    /\ filtered_foods = <<>>
    /\ GramsIdle /\ MergeInit /\ SuggestIdle /\ TdeeIdle /\ ServingIdle
    /\ SubscriptionIdle /\ MetricsIdle
NextRuns ==
    \/ Generate /\ UNCHANGED notPlanVars
    \/ BeginDay /\ UNCHANGED notPlanVars
    \/ BeginBreakfast /\ UNCHANGED notPlanVars
    \/ BreakfastMain /\ UNCHANGED notPlanVars
    \/ BreakfastBeverage /\ UNCHANGED notPlanVars
    \/ BreakfastFruit /\ UNCHANGED notPlanVars
    \/ BeginLunch /\ UNCHANGED notPlanVars
    \/ LunchMain /\ UNCHANGED notPlanVars
    \/ LunchSide /\ UNCHANGED notPlanVars
    \/ LunchBeverage /\ UNCHANGED notPlanVars
    \/ BeginSupper /\ UNCHANGED notPlanVars
    \/ SupperMain /\ UNCHANGED notPlanVars
    \/ SupperSide /\ UNCHANGED notPlanVars
    \/ EndDay /\ UNCHANGED notPlanVars
    \/ ReturnPlan /\ UNCHANGED notPlanVars
    \/ SwitchRun /\ UNCHANGED notRunsVars
SpecRuns == InitRuns /\ [][NextRuns]_vars

\* the subscription of one user: the handlers in any order, as days pass
notSubscriptionVars == <<filterVars, gramsVars, mergeVars, planVars, suggestVars, tdeeVars, servingVars, runVars, metricsVars>>
InitSubscription ==
    /\ SubscriptionInit
    /\ FilterIdle /\ GramsIdle /\ MergeInit /\ PlanIdle /\ SuggestIdle /\ TdeeIdle
    /\ ServingIdle /\ RunsIdle /\ MetricsIdle
NextSubscription ==
    \/ Tick /\ UNCHANGED notSubscriptionVars
    \/ StartTrial /\ UNCHANGED notSubscriptionVars
    \/ UpgradeSubscription /\ UNCHANGED notSubscriptionVars
    \/ CancelSubscription /\ UNCHANGED notSubscriptionVars
    \/ ProcessExpiry /\ UNCHANGED notSubscriptionVars
    \/ InitiatePayment /\ UNCHANGED notSubscriptionVars
    \/ HandlePaymentWebhook /\ UNCHANGED notSubscriptionVars
SpecSubscription == InitSubscription /\ [][NextSubscription]_vars

\* the user_metrics rows of one user under two requests
notMetricsVars == <<filterVars, gramsVars, mergeVars, planVars, suggestVars, tdeeVars, servingVars, runVars, subscriptionVars>>
InitMetrics ==
    /\ MetricsInit
    /\ FilterIdle /\ GramsIdle /\ MergeInit /\ PlanIdle /\ SuggestIdle /\ TdeeIdle
    /\ ServingIdle /\ RunsIdle /\ SubscriptionIdle
NextMetrics ==
    \/ CreateQuery /\ UNCHANGED notMetricsVars
    \/ CreateCommit /\ UNCHANGED notMetricsVars
    \/ UpdateUserMetrics /\ UNCHANGED notMetricsVars
SpecMetrics == InitMetrics /\ [][NextMetrics]_vars

\* suggest_meal_plan, one request
notSuggestVars == <<dietary_restrictions, allergies, medical_conditions,
                    gramsVars, mergeVars, planVars, tdeeVars, servingVars, runVars, subscriptionVars, metricsVars>>
InitSuggest ==
    /\ SuggestInit
    /\ dietary_restrictions = {} /\ allergies = {} /\ medical_conditions = {}
    /\ GramsIdle /\ MergeInit /\ PlanIdle /\ TdeeIdle /\ ServingIdle /\ RunsIdle /\ SubscriptionIdle /\ MetricsIdle
NextSuggest ==
    \/ Authorize /\ UNCHANGED notSuggestVars
    \/ ValidateGoal /\ UNCHANGED notSuggestVars
    \/ ResolveTarget /\ UNCHANGED notSuggestVars
    \/ ValidateTarget /\ UNCHANGED notSuggestVars
    \/ FetchFoods /\ UNCHANGED notSuggestVars
    \/ FilterFoods /\ UNCHANGED notSuggestVars
    \/ GenerateCall /\ UNCHANGED notSuggestVars
SpecSuggest == InitSuggest /\ [][NextSuggest]_vars

(***************************************************************************)
(* Properties of the dietary filter                                        *)
(***************************************************************************)
Overlaps(a, b) == a \cap b # {}

\* C4: with a non-empty allergen list, no food that shares an allergen with
\* the request is in the filter's output, whatever the other two lists are.
AllergenExclusionStrict ==
    (pc = "filter_done" /\ allergies # {}) =>
        \A k \in 1..Len(filtered_foods) :
            ~Overlaps(filtered_foods[k].allergens, allergies)

\* a call where the exclusion dropped a food and kept another one
AllergenExclusionWitness ==
    /\ pc = "filter_done"
    /\ allergies # {}
    /\ dietary_restrictions # {}
    /\ \E k \in 1..Len(food_list) : Overlaps(food_list[k].allergens, allergies)
    /\ Len(filtered_foods) = 1

Eligible(food) ==
    /\ dietary_restrictions = {} \/ Overlaps(food.dietary_tags, dietary_restrictions)
    /\ allergies = {} \/ ~Overlaps(food.allergens, allergies)
    /\ medical_conditions = {} \/ medical_conditions \subseteq food.suitable_for_conditions

\* C5: when some constraint list is non-empty, a food of the catalogue is in
\* the output exactly when it passes the any-of restriction test, the
\* allergen disjointness test and the all-of condition test.
FilterKeepsExactlyEligible ==
    (pc = "filter_done"
        /\ (dietary_restrictions # {} \/ allergies # {} \/ medical_conditions # {})) =>
        /\ \A k \in 1..Len(food_list) :
              (food_list[k] \in Range(filtered_foods)) <=> Eligible(food_list[k])
        /\ Range(filtered_foods) \subseteq Range(food_list)

\* a call with two requested conditions and two requested restrictions that
\* keeps one food and drops another
FilterEligibleWitness ==
    /\ pc = "filter_done"
    /\ medical_conditions = ConditionNames
    /\ dietary_restrictions = RestrictionNames
    /\ allergies # {}
    /\ Len(food_list) = 2
    /\ Len(filtered_foods) = 1

\* C6: with the three constraint lists empty the filter returns its input
\* catalogue: same foods, same order.
FilterIdentity ==
    (pc = "filter_done" /\ dietary_restrictions = {} /\ allergies = {}
        /\ medical_conditions = {}) => filtered_foods = food_list

FilterIdentityWitness ==
    /\ pc = "filter_done"
    /\ dietary_restrictions = {} /\ allergies = {} /\ medical_conditions = {}
    /\ Len(food_list) >= 2
    /\ filtered_foods = food_list

(***************************************************************************)
(* Properties of the portion sizing                                        *)
(***************************************************************************)
\* C3: for every calorie density, target and min_grams <= max_grams the
\* result lies in [min_grams, max_grams], and it is min_grams when the
\* density is 0.
GramsWithinBounds ==
    pc = "grams_done" =>
        /\ grams_args.min_grams <= grams_result
        /\ grams_result <= grams_args.max_grams
        /\ grams_args.calories_per_100g = 0 => grams_result = grams_args.min_grams

(***************************************************************************)
(* Properties of the merge                                                 *)
(***************************************************************************)
\* C2: a call on a list that already holds an entry with the new id keeps
\* the number of entries; grams, total_calories and the four macro fields of
\* that entry become old value + new value; every other entry is unchanged.
MergeStep ==
    LET k == FirstWithId(meal_items, new_food'.id)
    IN  k # 0 =>
          /\ Len(meal_items') = Len(meal_items)
          /\ meal_items'[k].id = new_food'.id
          /\ meal_items'[k].grams = meal_items[k].grams + new_food'.grams
          /\ meal_items'[k].total_calories =
                meal_items[k].total_calories + new_food'.total_calories
          /\ meal_items'[k].macros.protein_g =
                meal_items[k].macros.protein_g + new_food'.macros.protein_g
          /\ meal_items'[k].macros.carbs_g =
                meal_items[k].macros.carbs_g + new_food'.macros.carbs_g
          /\ meal_items'[k].macros.fat_g =
                meal_items[k].macros.fat_g + new_food'.macros.fat_g
          /\ meal_items'[k].macros.fiber_g =
                meal_items[k].macros.fiber_g + new_food'.macros.fiber_g
          /\ \A j \in 1..Len(meal_items) : j # k => meal_items'[j] = meal_items[j]

MergeIsAdditive == [][MergeStep]_vars

\* a list of two entries whose second entry took a merge
MergeWitness ==
    /\ Len(meal_items) = 2
    /\ add_calls = 3
    /\ new_food.id = meal_items[2].id
    /\ meal_items[2].grams > new_food.grams

(***************************************************************************)
(* Properties of the allocation engine                                     *)
(***************************************************************************)
\* C1: in every day the engine builds, no meal holds two SelectedFood
\* entries with the same food id.
NoDuplicateFoodInMeal ==
    \A meal \in MealNames :
        \A a, b \in 1..Len(day_plan.meal_plan[meal]) :
            day_plan.meal_plan[meal][a].id = day_plan.meal_plan[meal][b].id => a = b

\* a finished breakfast whose single line is a food of three buckets that was
\* picked as main item, as beverage and as fruit
NoDuplicateWitness ==
    /\ pc = "lunch"
    /\ Len(day_plan.meal_plan.breakfast) = 1
    /\ day_plan.meal_plan.breakfast[1].id = "f7"
    /\ day_plan.meal_plan.breakfast[1].grams >=
          100 * (GRAMS_RANGES(body_goal).main_min_grams + 200 + 100)

\* C10: a run on a non-empty catalogue never aborts: no step of
\* generate_user_meal_plan raises.
PlanNeverAborts == pc # "raised"

(***************************************************************************)
(* Properties of suggest_meal_plan                                         *)
(***************************************************************************)
InRange(t) == 10000 * 1200 <= t /\ t <= 10000 * 5000

\* an HTTP 400 answer, raised as HTTPException or returned as JSONResponse
IsInvalidInput == response.kind # "none" /\ response.status_code = 400

\* C7: an authenticated request with an unrecognized body goal, or whose
\* resolved target is outside [1200, 5000], is answered with HTTP 400 and
\* neither the filter nor the engine was called; every engine call made has
\* a recognized goal and a target within [1200, 5000].
InvalidInputRejected ==
    /\ (pc = "responded" /\ authorization = "Bearer valid"
          /\ \/ meal_plan_preferences.body_goal \notin BodyGoalNames
             \/ (~target_calories.is_none /\ ~InRange(target_calories.value))) =>
            (IsInvalidInput /\ filter_calls = 0 /\ engine_calls = <<>>)
    /\ \A k \in 1..Len(engine_calls) :
          /\ engine_calls[k].body_goal \in BodyGoalNames
          /\ InRange(engine_calls[k].daily_calorie_target)

\* a request whose stored TDEE, adjusted for the goal, exceeds 5000 and that
\* was rejected
InvalidInputWitness ==
    /\ pc = "responded"
    /\ meal_plan_preferences.use_calculated_tdee
    /\ ~target_calories.is_none
    /\ target_calories.value > 10000 * 5000
    /\ IsInvalidInput

\* C8: a supplied calorie-target override outside [1200, 5000] yields HTTP 400
\* and no engine call, whatever the other request fields and the stored
\* metrics are.
OverrideIsValidated ==
    (pc = "responded" /\ authorization = "Bearer valid"
        /\ ~meal_plan_preferences.daily_calorie_target.is_none
        /\ ~InRange(10000 * meal_plan_preferences.daily_calorie_target.value)) =>
        (IsInvalidInput /\ engine_calls = <<>>)

\* the request passed authentication, goal validation and target validation
Validated ==
    /\ authorization = "Bearer valid"
    /\ meal_plan_preferences.body_goal \in BodyGoalNames
    /\ ~target_calories.is_none
    /\ InRange(target_calories.value)

\* C9: whenever the filter leaves no food of the catalogue (the empty
\* catalogue included), a validated request gets the 'no matching foods'
\* warning with an empty payload, and the engine is not called.
NoEligibleFoodsIsWarning ==
    (pc = "responded" /\ Validated
        /\ filter_by_dietary_requirements(
               meal_plan_preferences.dietary_restrictions,
               meal_plan_preferences.allergies,
               meal_plan_preferences.medical_conditions, db_foods) = <<>>) =>
        /\ response.kind = "return"
        /\ response.status = "warning"
        /\ response.payload = "empty list"
        /\ engine_calls = <<>>

(***************************************************************************)
(* Properties of the generated week                                        *)
(***************************************************************************)
\* C11: a returned plan has exactly seven day entries named Monday to Sunday
\* in that order, and every day appended carries the breakfast, lunch and
\* supper lists, whatever the catalogue (the one without any food included),
\* the target and the goal.
PlanHasSevenDays ==
    LET week == <<"Monday", "Tuesday", "Wednesday", "Thursday", "Friday",
                  "Saturday", "Sunday">>
    IN  /\ pc = "returned" => meal_plan = week
        /\ (pc = "day" /\ day_index > 0) =>
              /\ Len(meal_plan) = day_index
              /\ day_plan.day = week[day_index]
              /\ meal_plan[day_index] = week[day_index]
              /\ DOMAIN day_plan.meal_plan = {"breakfast", "lunch", "supper"}

\* a plan returned for the catalogue without foods: seven days, all empty
SevenEmptyDaysWitness ==
    /\ pc = "returned"
    /\ food_list = <<>>
    /\ Len(meal_plan) = 7
    /\ \A meal \in MealNames : day_plan.meal_plan[meal] = <<>>

FoodWithId(foods, id) == CHOOSE f \in Range(foods) : f.food_id = id

\* round(amount * grams / reference_portion_grams, 1), in 0.01 g
ScaledMacro(amount, grams, reference_portion_grams) ==
    10 * RoundHalfEven(amount * grams, 10 * reference_portion_grams)

MacrosScaledStep ==
    \A meal \in MealNames :
        LET old == day_plan.meal_plan[meal]
            new == day_plan'.meal_plan[meal]
        IN  Len(new) = Len(old) + 1 =>
              LET line == new[Len(new)]
                  food == FoodWithId(food_list, line.id)
                  ref == food.reference_portion_grams
              IN  /\ line.macros.protein_g =
                        ScaledMacro(food.breakdown.protein.amount, line.grams, ref)
                  /\ line.macros.carbs_g =
                        ScaledMacro(food.breakdown.carbohydrate.amount, line.grams, ref)
                  /\ line.macros.fat_g =
                        ScaledMacro(food.breakdown.fat.amount, line.grams, ref)
                  /\ line.macros.fiber_g =
                        ScaledMacro(food.breakdown.fiber.amount, line.grams, ref)

\* C12: whenever the engine appends a new SelectedFood line to a meal, each
\* macro field of the line is the food's amount of that nutrient times
\* grams / reference_portion_grams of that food, rounded to one decimal,
\* also for a food whose reference_portion_grams is not 100.
MacrosScaleWithReferencePortion == [][MacrosScaledStep]_vars

RECURSIVE LinesCalories(_)
LinesCalories(lines) ==
    IF lines = <<>> THEN 0 ELSE Head(lines).total_calories + LinesCalories(Tail(lines))

RECURSIVE LinesMacro(_, _)
LinesMacro(lines, field) ==
    IF lines = <<>> THEN 0 ELSE Head(lines).macros[field] + LinesMacro(Tail(lines), field)

DayLines ==
    day_plan.meal_plan.breakfast \o day_plan.meal_plan.lunch \o day_plan.meal_plan.supper

\* C13: when a day is complete its total_calories is the sum of
\* total_calories over the lines of its three meals (a multiple of 0.1, so
\* the rounding to one decimal leaves it as it is), and each field of
\* total_macros is the sum of that field over the same lines, merged lines
\* included.
DayTotalsAreSums ==
    (pc = "day" /\ day_index > 0) =>
        /\ day_plan.total_calories = LinesCalories(DayLines)
        /\ \A field \in {"protein_g", "carbs_g", "fat_g", "fiber_g"} :
              day_plan.total_macros[field] = LinesMacro(DayLines, field)

\* a complete day whose lunch is one line merged from two portions (more
\* grams than one clamped portion can have) and whose supper has a line too
DayTotalsWitness ==
    /\ pc = "day"
    /\ day_index > 0
    /\ Len(day_plan.meal_plan.lunch) = 1
    /\ day_plan.meal_plan.lunch[1].grams > 100 * GRAMS_RANGES(body_goal).main_max_grams
    /\ day_plan.meal_plan.supper # <<>>
    /\ day_plan.total_calories >
          day_plan.meal_plan.lunch[1].total_calories

(***************************************************************************)
(* Properties of the reported target                                       *)
(***************************************************************************)
\* the flat offset of a body goal, 0.0001 kcal
GoalOffset(goal) ==
    IF goal = "WEIGHT_LOSS" THEN -5000000
    ELSE IF goal = "MUSCLE_GAIN" THEN 4000000 ELSE 0

\* C14: a success answer of suggest_meal_plan carries as target_calories the
\* daily target of the one engine call of the request: the manual target when
\* use_calculated_tdee is false, the stored TDEE plus the goal's offset when
\* it is true; the value lies in [1200, 5000].
TargetReported ==
    (pc = "responded" /\ response.status = "success") =>
        /\ Len(engine_calls) = 1
        /\ ~response.target_calories.is_none
        /\ response.target_calories.value = engine_calls[1].daily_calorie_target
        /\ meal_plan_preferences.use_calculated_tdee =>
              response.target_calories.value =
                  db_user_metrics.value + GoalOffset(meal_plan_preferences.body_goal)
        /\ ~meal_plan_preferences.use_calculated_tdee =>
              response.target_calories.value =
                  10000 * meal_plan_preferences.daily_calorie_target.value
        /\ InRange(response.target_calories.value)

\* a success answer whose target is the stored TDEE 1895.52 less the
\* weight-loss cut, although the request also carried a manual target
TargetReportedWitness ==
    /\ pc = "responded"
    /\ response.status = "success"
    /\ meal_plan_preferences.use_calculated_tdee
    /\ meal_plan_preferences.body_goal = "WEIGHT_LOSS"
    /\ ~meal_plan_preferences.daily_calorie_target.is_none
    /\ response.target_calories.value = 13955200

(***************************************************************************)
(* End-to-end scenario A                                                   *)
(***************************************************************************)
\* goal MAINTENANCE, target 2000, one breakfast food at 200 kcal / 100 g and
\* one lunch/supper food at 300 kcal / 100 g
ScenarioA ==
    /\ body_goal = "MAINTENANCE"
    /\ daily_calorie_target = 10000 * 2000
    /\ Len(food_list) = 2
    /\ food_list[1].food_id = "f1" /\ food_list[1].total = 200
    /\ food_list[1].meal_type = "breakfast or snack"
    /\ food_list[2].food_id = "f2" /\ food_list[2].total = 300
    /\ food_list[2].meal_type = "lunch or supper"

\* C15: in scenario A a returned week has seven days, and every completed
\* day has a breakfast of exactly one line, of the breakfast food, of 600 kcal
\* (within 0.1), and a lunch and a supper of exactly one line each, of the
\* lunch/supper food, whose grams are the sum of one or two portions each
\* within 150..300 g (for supper: of num_main_items such portions).
ScenarioAHolds ==
    ScenarioA =>
        /\ pc = "returned" => Len(meal_plan) = 7
        /\ (pc = "day" /\ day_index > 0) =>
              LET breakfast == day_plan.meal_plan.breakfast
                  lunch == day_plan.meal_plan.lunch
                  supper == day_plan.meal_plan.supper
              IN  /\ Len(breakfast) = 1
                  /\ breakfast[1].id = "f1"
                  /\ breakfast[1].total_calories >= 6000000 - 1000
                  /\ breakfast[1].total_calories <= 6000000 + 1000
                  /\ Len(lunch) = 1
                  /\ lunch[1].id = "f2"
                  /\ \E n \in 1..2 : /\ n * 15000 <= lunch[1].grams
                                      /\ lunch[1].grams <= n * 30000
                  /\ Len(supper) = 1
                  /\ supper[1].id = "f2"
                  /\ num_main_items * 15000 <= supper[1].grams
                  /\ supper[1].grams <= num_main_items * 30000

\* a returned week of scenario A whose last day has a lunch of one 233.3 g
\* portion and a supper merged from two 150 g portions
ScenarioAWitness ==
    /\ ScenarioA
    /\ pc = "returned"
    /\ day_plan.day = "Sunday"
    /\ day_plan.meal_plan.lunch[1].grams = 23330
    /\ num_main_items = 2
    /\ day_plan.meal_plan.supper[1].grams = 30000

(***************************************************************************)
(* Properties of the TDEE calculator                                       *)
(***************************************************************************)
Distance(a, b) == IF a >= b THEN a - b ELSE b - a

\* C16: calculate_tdee is (370 + 21.6 * weight * (1 - body_fat / 100)) * m
\* rounded to two decimals, with m = 1.2, 1.375, 1.55, 1.725, 1.9 for the five
\* activity levels and 1.2 for any other level; weight 70, body fat 20,
\* sedentary gives lean mass 56, BMR 1579.6 and TDEE 1895.52.
TdeeFormula ==
    pc # "tdee_call" =>
        LET w == tdee_args.weight_kg
            bf == tdee_args.body_fat_percentage
            a == tdee_args.activity_level
            \* m in units of 1/40
            m == IF a = "lightly_active" THEN 55
                 ELSE IF a = "moderately_active" THEN 62
                 ELSE IF a = "very_active" THEN 69
                 ELSE IF a = "extra_active" THEN 76 ELSE 48
            \* 400 times the exact product in 0.01 kcal
            exact400 == (370000 + 216 * w * (100 - bf)) * m
        IN  /\ 2 * Distance(400 * tdee_result.tdee, exact400) <= 400
            /\ (w = 70 /\ bf = 20 /\ a = "sedentary") =>
                  /\ tdee_result.lbm = 5600
                  /\ tdee_result.bmr = 1579600
                  /\ tdee_result.tdee = 189552

\* the worked example, computed
TdeeExampleWitness ==
    /\ pc = "tdee_done"
    /\ tdee_args = [weight_kg |-> 70, body_fat_percentage |-> 20,
                    activity_level |-> "sedentary"]
    /\ tdee_result = [lbm |-> 5600, bmr |-> 1579600, tdee |-> 189552]

\* C17 as stated: adjust_for_body_goal returns tdee - 500, tdee + 400 or tdee
\* itself (MAINTENANCE and every unrecognized goal), for all tdee values.
AdjustIsFlatOffset ==
    pc = "adjust_done" =>
        adjust_result = adjust_args.tdee + GoalOffset(adjust_args.body_goal)

\* C17 as amended: adjust_for_body_goal returns tdee - 500, tdee + 400 or tdee
\* (MAINTENANCE and every unrecognized goal) rounded to two decimals; the
\* result is that sum itself whenever tdee has at most two decimals.
AdjustIsRoundedOffset ==
    pc = "adjust_done" =>
        LET sum == adjust_args.tdee + GoalOffset(adjust_args.body_goal)
        IN  /\ adjust_result % 100 = 0
            /\ 2 * Distance(adjust_result, sum) <= 100
            /\ adjust_args.tdee % 100 = 0 => adjust_result = sum

\* an unrecognized goal and a tdee of 2000.123: the result is 2000.12
AdjustWitness ==
    /\ pc = "adjust_done"
    /\ adjust_args = [tdee |-> 20001230, body_goal |-> "BULKING"]
    /\ adjust_result = 20001200

(***************************************************************************)
(* Properties of the serving-size helper                                   *)
(***************************************************************************)
\* C18: converting grams to servings and back gives the grams again within
\* 0.05 x typical portion grams + 0.05 g, for every gram amount, macro
\* category and meal type.
RoundTripWithinTolerance ==
    pc = "round_trip_done" =>
        Distance(grams_from_servings, serving_args.grams) <=
            5 * get_typical_serving_size(serving_args.macro_nutrient,
                                         serving_args.meal_type) + 5

\* a round trip through the macro table (the meal type is in no table) that
\* does not give back the grams it started from
RoundTripWitness ==
    /\ pc = "round_trip_done"
    /\ serving_args.meal_type = "dessert"
    /\ serving_args.macro_nutrient = "Fat"
    /\ servings_result > 0
    /\ grams_from_servings # serving_args.grams

(***************************************************************************)
(* Properties of the calorie-share table                                   *)
(***************************************************************************)
\* spacing of the doubles around hi * 2^28, in units of 2^-57
Ulp(hi) ==
    IF hi >= 2 * Limb THEN 32
    ELSE IF hi >= Limb THEN 16
    ELSE IF 2 * hi >= Limb THEN 8
    ELSE IF 4 * hi >= Limb THEN 4
    ELSE IF 8 * hi >= Limb THEN 2 ELSE 1

\* a + b of two doubles: the exact sum rounded to the nearest double, ties to
\* the even one
FloatAdd(a, b) ==
    LET lo0 == a.lo + b.lo
        lo1 == lo0 % Limb
        hi1 == a.hi + b.hi + (lo0 \div Limb)
        q == Ulp(hi1)
        r == lo1 % q
        down == lo1 - r
        up == 2 * r > q \/ (2 * r = q /\ (down \div q) % 2 = 1)
        lo2 == IF up THEN down + q ELSE down
    IN  Double(hi1 + (lo2 \div Limb), lo2 % Limb)

\* sum(distribution.values()): breakfast + lunch + supper + snacks as doubles
ShareSum(goal) ==
    LET d == CALORIE_DISTRIBUTION(goal)
    IN  FloatAdd(FloatAdd(FloatAdd(ShareAsDouble(d.breakfast), ShareAsDouble(d.lunch)),
                          ShareAsDouble(d.supper)),
                 ShareAsDouble(d.snacks))

\* the decimal fractions as written in the table, in percent
ShareTotal(goal) ==
    LET d == CALORIE_DISTRIBUTION(goal)
    IN  d.breakfast + d.lunch + d.supper + d.snacks

\* C19 as stated: the four fractions of the goal the engine runs with sum to
\* exactly 1.0.
SharesSumToExactlyOne ==
    pc # "generate" => ShareSum(body_goal) = Double(2 * Limb, 0)

\* C19 as amended: the four fractions of the goal the engine runs with sum
\* to 1 as the decimal fractions the table writes; added as doubles in table
\* order they give exactly 1.0 for WEIGHT_LOSS and MAINTENANCE and the double
\* just below 1.0 (1 - 2^-53) for MUSCLE_GAIN.
SharesSumToOneWithinRounding ==
    pc # "generate" =>
        /\ ShareTotal(body_goal) = 100
        /\ ShareSum(body_goal) =
              IF body_goal = "MUSCLE_GAIN" THEN Double(2 * Limb - 1, Limb - 16)
              ELSE Double(2 * Limb, 0)

\* a muscle-gain run at its first lunch item, holding 35 % of the target
SharesWitness ==
    /\ pc = "lunch_main"
    /\ body_goal = "MUSCLE_GAIN"
    /\ i = 0
    /\ 100 * remaining_target = 35 * daily_calorie_target
    /\ ShareSum(body_goal) # Double(2 * Limb, 0)

(***************************************************************************)
(* Properties of the selection with priority                               *)
(***************************************************************************)
\* the list a meal's main-item loop hands to _select_food_with_priority
Candidates(meal) ==
    IF meal = "breakfast" THEN categorized_foods.breakfast
    ELSE IF meal = "lunch" THEN categorized_foods.lunch_supper
    ELSE available_supper_foods

\* the bucket whose emptiness decides whether a meal is built
BucketOf(meal) ==
    IF meal = "breakfast" THEN categorized_foods.breakfast
    ELSE categorized_foods.lunch_supper

\* the food with this id is in the list and, with n the length of the list
\* and k = max(1, n // 3): for MUSCLE_GAIN fewer than k foods of the list
\* have more calories, for WEIGHT_LOSS fewer than k foods have less
InPreferredThird(id, foods, goal) ==
    /\ \E j \in 1..Len(foods) : foods[j].food_id = id
    /\ LET total == FoodWithId(foods, id).total
           n == Len(foods)
           k == IF n \div 3 >= 1 THEN n \div 3 ELSE 1
           more == Cardinality({j \in 1..n : foods[j].total > total})
           less == Cardinality({j \in 1..n : foods[j].total < total})
       IN  /\ goal = "MUSCLE_GAIN" => more < k
           /\ goal = "WEIGHT_LOSS" => less < k

SelectionStep ==
    \A meal \in MealNames :
        LET old == day_plan.meal_plan[meal]
            new == day_plan'.meal_plan[meal]
            changed == {k \in 1..Len(new) :
                          k > Len(old) \/ new[k].grams # old[k].grams}
        IN  /\ (pc = meal \o "_main" /\ i' # i) => changed # {}
            /\ (pc = meal \o "_main" /\ pc' # "raised") =>
                  \A k \in changed :
                      InPreferredThird(new[k].id, Candidates(meal), body_goal)
            /\ (pc = meal /\ BucketOf(meal) = <<>>) =>
                  /\ day_plan' = day_plan
                  /\ pc' \in {pc, IF meal = "breakfast" THEN "lunch"
                                   ELSE IF meal = "lunch" THEN "supper"
                                   ELSE "day_totals"}

\* C20: the food a main-item step adds to a meal comes from the list handed
\* to the selection (the meal's bucket; for supper the bucket without the
\* foods of that day's lunch, or the whole bucket when none is left); with n
\* the length of that list it is one of the max(1, n // 3) highest-calorie
\* foods for MUSCLE_GAIN, one of the max(1, n // 3) lowest-calorie foods for
\* WEIGHT_LOSS and any food of the list for MAINTENANCE; a meal whose bucket
\* is empty selects nothing and is skipped.
SelectionByThirds == [][SelectionStep]_vars

\* a muscle-gain lunch on the six-dish catalogue that took the second
\* highest-calorie dish
SelectionWitness ==
    /\ food_list = SelectionCatalogue
    /\ body_goal = "MUSCLE_GAIN"
    /\ pc = "lunch_side"
    /\ \E k \in 1..Len(day_plan.meal_plan.lunch) : day_plan.meal_plan.lunch[k].id = "m5"

(***************************************************************************)
(* Properties of the main-item loops                                       *)
(***************************************************************************)
\* the lines of a meal a step has appended or enlarged
ChangedLines(meal) ==
    {k \in 1..Len(day_plan'.meal_plan[meal]) :
        \/ k > Len(day_plan.meal_plan[meal])
        \/ day_plan'.meal_plan[meal][k].grams # day_plan.meal_plan[meal][k].grams}

\* what a step added to line k of a meal: grams (0.01 g), calories (0.0001 kcal)
AddedTo(meal, k, field) ==
    IF k > Len(day_plan.meal_plan[meal])
    THEN day_plan'.meal_plan[meal][k][field]
    ELSE day_plan'.meal_plan[meal][k][field] - day_plan.meal_plan[meal][k][field]

\* the grams that give a food with the given calories per 100 g the calories
\* remaining / slots, kept within [lo, hi] and rounded to one decimal
GramsForShare(density, remaining, slots, lo, hi) ==
    IF density = 0 THEN lo
    ELSE IF remaining <= lo * density * slots THEN lo
    ELSE IF remaining >= hi * density * slots THEN hi
    ELSE 10 * RoundHalfEven(remaining, 10 * density * slots)

MainSizingStep ==
    \A meal \in MealNames :
        LET lo == 100 * GRAMS_RANGES(body_goal).main_min_grams
            hi == 100 * GRAMS_RANGES(body_goal).main_max_grams
        IN  /\ (pc = meal /\ pc' = meal \o "_main") =>
                  /\ num_main_items' \in {1, 2}
                  /\ i' = 0
                  /\ 100 * remaining_target' =
                        daily_calorie_target * CALORIE_DISTRIBUTION(body_goal)[meal]
            /\ (pc = meal \o "_main" /\ i' # i) =>
                  /\ i' = i + 1
                  /\ Cardinality(ChangedLines(meal)) = 1
                  /\ \A k \in ChangedLines(meal) :
                        LET grams == AddedTo(meal, k, "grams")
                            density == day_plan'.meal_plan[meal][k].calories_per_100g
                        IN  /\ lo <= grams /\ grams <= hi
                            /\ grams = GramsForShare(density, remaining_target,
                                                     num_main_items - i, lo, hi)
                            /\ remaining_target' = remaining_target
                                  - AddedTo(meal, k, "total_calories")

\* C21: a meal's main-item loop starts with remaining equal to the meal's
\* target and n in {1, 2}; main item i is sized for remaining / (n - i)
\* calories, its grams are within the goal's [main_min_grams,
\* main_max_grams], and remaining then decreases by the calories added for
\* it, also when remaining is zero or negative.
MainItemsShareRemaining == [][MainSizingStep]_vars

\* a lunch of two main items whose second item was sized with a negative
\* remaining target
NegativeRemainingWitness ==
    /\ pc = "lunch_side"
    /\ num_main_items = 2
    /\ Len(day_plan.meal_plan.lunch) = 2
    /\ remaining_target + day_plan.meal_plan.lunch[2].total_calories < 0
    /\ day_plan.meal_plan.lunch[2].grams = 100 * GRAMS_RANGES(body_goal).main_min_grams

(***************************************************************************)
(* Properties of the supper candidates                                     *)
(***************************************************************************)
\* ids of the entries of the lunch of the day being built
LunchEntryIds == {day_plan.meal_plan.lunch[k].id : k \in 1..Len(day_plan.meal_plan.lunch)}

\* ids of the foods of the lunch_supper bucket
LunchSupperIds ==
    {categorized_foods.lunch_supper[k].food_id :
        k \in 1..Len(categorized_foods.lunch_supper)}

\* C22: while a day's supper holds main items only, each of them has an id
\* that is not among the day's lunch entries whenever the lunch_supper
\* bucket has a food whose id is not among them; when every food of the
\* bucket is in the lunch, the supper's main items are foods of the bucket.
SupperAvoidsLunch ==
    pc \in {"supper_main", "supper_side"} =>
        \A k \in 1..Len(day_plan.meal_plan.supper) :
            IF LunchSupperIds \ LunchEntryIds # {}
            THEN day_plan.meal_plan.supper[k].id \notin LunchEntryIds
            ELSE day_plan.meal_plan.supper[k].id \in LunchSupperIds

\* a day whose lunch took one of two dishes and whose supper, two main items
\* long, took the other one twice
SupperAvoidsLunchWitness ==
    /\ pc = "supper_side"
    /\ Len(categorized_foods.lunch_supper) = 2
    /\ Cardinality(LunchEntryIds) = 1
    /\ num_main_items = 2
    /\ Len(day_plan.meal_plan.supper) = 1
    /\ day_plan.meal_plan.supper[1].id \in LunchSupperIds \ LunchEntryIds

(***************************************************************************)
(* Properties of the optional extras                                       *)
(***************************************************************************)
\* ids of the foods of a bucket
BucketIds(bucket) ==
    {categorized_foods[bucket][k].food_id : k \in 1..Len(categorized_foods[bucket])}

\* the step left the meal's lists as they were, or added to one line of the
\* meal a food of the bucket with grams (whole grams) in lo..hi
AddsAtMostOne(meal, bucket, lo, hi) ==
    /\ \A other \in MealNames \ {meal} :
          day_plan'.meal_plan[other] = day_plan.meal_plan[other]
    /\ Cardinality(ChangedLines(meal)) <= 1
    /\ \A k \in ChangedLines(meal) :
          /\ day_plan'.meal_plan[meal][k].id \in BucketIds(bucket)
          /\ AddedTo(meal, k, "grams") \in {100 * g : g \in lo..hi}

\* every food of the catalogue is in at most one bucket
SingleBucketFoods ==
    \A k \in 1..Len(food_list) :
        Cardinality({b \in DOMAIN categorized_foods :
                        food_list[k].food_id \in BucketIds(b)}) <= 1

BeverageStep ==
    /\ pc = "breakfast_beverage" =>
          /\ pc' \in {pc, "breakfast_fruit"}
          /\ AddsAtMostOne("breakfast", "beverages", 200, 300)
    /\ pc = "lunch_beverage" =>
          /\ pc' \in {pc, "supper"}
          /\ AddsAtMostOne("lunch", "beverages", 250, 250)
    \* each beverage step is entered once per meal, from the step before it
    /\ (pc' = "breakfast_beverage" /\ pc # pc') => pc = "breakfast_main"
    /\ (pc' = "lunch_beverage" /\ pc # pc') => pc = "lunch_side"
    \* no step adds a beverage to a supper
    /\ (SingleBucketFoods /\ pc # "generate") =>
          \A k \in 1..Len(day_plan'.meal_plan.supper) :
              day_plan'.meal_plan.supper[k].id \notin BucketIds("beverages")

\* C23: the beverage step of a breakfast runs once and adds at most one
\* selection, a food of the beverage bucket with grams in 200..300; the
\* beverage step of a lunch runs once and adds at most one, with exactly
\* 250 grams; when every food is in a single bucket no supper ever holds a
\* food of the beverage bucket.
BeverageRules == [][BeverageStep]_vars

\* a finished day whose lunch got a 250 g beverage and whose supper is built
BeverageWitness ==
    /\ pc = "day_totals"
    /\ SingleBucketFoods
    /\ day_plan.meal_plan.supper # <<>>
    /\ \E k \in 1..Len(day_plan.meal_plan.lunch) :
          /\ day_plan.meal_plan.lunch[k].id \in BucketIds("beverages")
          /\ day_plan.meal_plan.lunch[k].grams = 100 * 250

\* the calories of the lines a breakfast holds before its fruit step (main
\* items and beverage) are below 90% of the breakfast target
RoomForFruit ==
    10 * LinesCalories(day_plan.meal_plan.breakfast) <
        9 * ((daily_calorie_target * CALORIE_DISTRIBUTION(body_goal).breakfast) \div 100)

\* the fruit step can end with the breakfast as it was
FruitCanBeLeftOut == ENABLED (BreakfastFruit /\ day_plan' = day_plan)

\* the fruit step can end with a line of the breakfast added or enlarged
FruitCanBeAdded == ENABLED (BreakfastFruit /\ day_plan' # day_plan)

FruitStep ==
    /\ pc = "breakfast_fruit" =>
          /\ pc' \in {pc, "lunch"}
          /\ AddsAtMostOne("breakfast", "fruits", 100, 150)
          /\ ChangedLines("breakfast") # {} => RoomForFruit
    \* the fruit step is entered once per breakfast
    /\ (pc' = "breakfast_fruit" /\ pc # pc') => pc = "breakfast_beverage"
    \* no step adds a fruit to a lunch or a supper
    /\ (SingleBucketFoods /\ pc # "generate") =>
          \A meal \in {"lunch", "supper"} :
              \A k \in 1..Len(day_plan'.meal_plan[meal]) :
                  day_plan'.meal_plan[meal][k].id \notin BucketIds("fruits")

\* C24 as stated: the fruit step adds to the breakfast only, at most one
\* fruit with grams in 100..150 and only below 90% of the breakfast target;
\* and when the calories are below 90% and the fruit bucket is not empty,
\* both outcomes are possible: the breakfast with the fruit and without it.
FruitIsAChance ==
    [][/\ FruitStep
       /\ (pc = "breakfast_fruit" /\ RoomForFruit
              /\ categorized_foods.fruits # <<>>) =>
             (FruitCanBeAdded /\ FruitCanBeLeftOut)]_vars

\* C24: the fruit step adds to the breakfast only, at most one fruit with
\* grams in 100..150 and only when the calories of the main items and the
\* beverage are below 90% of the breakfast target; when they are and the
\* fruit bucket is not empty the fruit is always added: no random draw
\* decides it, only which fruit and how many grams.
FruitWheneverRoom ==
    [][/\ FruitStep
       /\ (pc = "breakfast_fruit" /\ RoomForFruit
              /\ categorized_foods.fruits # <<>>) =>
             (FruitCanBeAdded /\ ~FruitCanBeLeftOut /\ ChangedLines("breakfast") # {})]_vars

\* a breakfast of single-bucket foods that got 150 g of a fruit
FruitWitness ==
    /\ pc = "lunch"
    /\ SingleBucketFoods
    /\ Len(day_plan.meal_plan.breakfast) = 2
    /\ day_plan.meal_plan.breakfast[2].id \in BucketIds("fruits")
    /\ day_plan.meal_plan.breakfast[2].grams = 100 * 150

\* the side-dish gram range of a goal, whole grams
SideGramRange(goal) ==
    CASE goal = "WEIGHT_LOSS" -> 80..100
      [] goal = "MUSCLE_GAIN" -> 100..200
      [] goal = "MAINTENANCE" -> 80..150

\* the step left the meal as it was, or added to one line of the meal a side
\* dish with a whole number of grams in the goal's side range
AddsAtMostOneSide(meal) ==
    /\ \A other \in MealNames \ {meal} :
          day_plan'.meal_plan[other] = day_plan.meal_plan[other]
    /\ Cardinality(ChangedLines(meal)) <= 1
    /\ \A k \in ChangedLines(meal) :
          /\ day_plan'.meal_plan[meal][k].id \in BucketIds("side_dishes")
          /\ AddedTo(meal, k, "grams") \in {100 * g : g \in SideGramRange(body_goal)}

SideDishStep ==
    /\ pc = "lunch_side" =>
          /\ pc' \in {pc, "lunch_beverage"}
          /\ AddsAtMostOneSide("lunch")
    /\ pc = "supper_side" =>
          /\ pc' \in {pc, "day_totals"}
          /\ AddsAtMostOneSide("supper")
    \* each side-dish step is entered once per meal, after the main items
    /\ (pc' = "lunch_side" /\ pc # pc') => pc = "lunch_main"
    /\ (pc' = "supper_side" /\ pc # pc') => pc = "supper_main"
    \* no step adds a side dish to a breakfast
    /\ (SingleBucketFoods /\ pc # "generate") =>
          \A k \in 1..Len(day_plan'.meal_plan.breakfast) :
              day_plan'.meal_plan.breakfast[k].id \notin BucketIds("side_dishes")

\* C25: the side-dish step of a lunch and of a supper runs once per meal and
\* adds at most one selection, a food of the side-dish bucket with a whole
\* number of grams in 80..100 for WEIGHT_LOSS, 100..200 for MUSCLE_GAIN and
\* 80..150 for MAINTENANCE; no breakfast gets a side dish.
SideDishRules == [][SideDishStep]_vars

\* a muscle-gain day whose lunch and supper both got a side dish, of 100 g
\* and of 200 g
SideDishWitness ==
    /\ pc = "day_totals"
    /\ body_goal = "MUSCLE_GAIN"
    /\ SingleBucketFoods
    /\ \E k \in 1..Len(day_plan.meal_plan.lunch) :
          /\ day_plan.meal_plan.lunch[k].id \in BucketIds("side_dishes")
          /\ day_plan.meal_plan.lunch[k].grams = 100 * 100
    /\ \E k \in 1..Len(day_plan.meal_plan.supper) :
          /\ day_plan.meal_plan.supper[k].id \in BucketIds("side_dishes")
          /\ day_plan.meal_plan.supper[k].grams = 100 * 200

(***************************************************************************)
(* Properties of two runs of the engine                                    *)
(***************************************************************************)
\* the frame of run r
FrameOf(r) == IF active_run = r THEN RunFrame ELSE parked

\* the arguments run r was called with
CalledWith(r) ==
    IF r = 1 THEN [body_goal |-> "MAINTENANCE", daily_calorie_target |-> 10000 * 2000]
    ELSE [body_goal |-> "WEIGHT_LOSS", daily_calorie_target |-> 10000 * 1200]

\* the catalogue is as it was handed over, and each run works on its own
\* arguments, on the buckets of that catalogue and on its own meal targets
RunsAreApart ==
    /\ food_list = RunCatalogue
    /\ \A r \in {1, 2} :
          LET frame == FrameOf(r)
              meals == {m \in MealNames : frame.pc = m \o "_main" /\ frame.i = 0}
          IN  /\ frame.body_goal = CalledWith(r).body_goal
              /\ frame.daily_calorie_target = CalledWith(r).daily_calorie_target
              /\ frame.pc # "generate" =>
                    frame.categorized_foods = categorize_foods(RunCatalogue)
              /\ \A m \in meals :
                    100 * frame.remaining_target =
                        CalledWith(r).daily_calorie_target
                            * CALORIE_DISTRIBUTION(CalledWith(r).body_goal)[m]

\* a step of the run that is executing leaves the catalogue, its own buckets
\* and the frame of the other run as they were
RunStepFrame ==
    /\ food_list' = food_list
    /\ active_run' = active_run =>
          /\ parked' = parked
          /\ pc # "generate" => categorized_foods' = categorized_foods

\* C26: a run of the engine never changes the catalogue it was handed (the
\* list and its foods), nor its buckets once they are built, nor anything of
\* another run: of two runs on the same catalogue, executed one after the
\* other or interleaved at any step, each keeps its own arguments, buckets
\* and meal targets.
RunsAreIndependent == [](active_run # 0 => RunsAreApart) /\ [][RunStepFrame]_vars

\* both runs in the middle of a day: the second one at its Tuesday supper
\* while the first one waits in its Thursday lunch
InterleavedRunsWitness ==
    /\ active_run = 2
    /\ pc = "supper_main"
    /\ day_index = 1
    /\ parked.pc = "lunch_main"
    /\ parked.day_index = 3

(***************************************************************************)
(* Properties of a meal without main foods                                 *)
(***************************************************************************)
\* C27: once the buckets are built, the breakfast of the day being built is
\* empty whenever the breakfast bucket is empty, and its lunch and supper
\* are empty whenever the lunch_supper bucket is empty, whatever the
\* beverage, fruit and side-dish buckets hold.
NoMainFoodsNoMeal ==
    pc # "generate" =>
        /\ categorized_foods.breakfast = <<>> => day_plan.meal_plan.breakfast = <<>>
        /\ categorized_foods.lunch_supper = <<>> =>
              /\ day_plan.meal_plan.lunch = <<>>
              /\ day_plan.meal_plan.supper = <<>>

\* a returned week planned on a beverage and a fruit only: the last day has
\* no line at all
NoMainFoodsWitness ==
    /\ pc = "returned"
    /\ categorized_foods.breakfast = <<>>
    /\ categorized_foods.lunch_supper = <<>>
    /\ categorized_foods.beverages # <<>>
    /\ categorized_foods.fruits # <<>>
    /\ \A meal \in MealNames : day_plan.meal_plan[meal] = <<>>

(***************************************************************************)
(* Properties of the subscription                                          *)
(***************************************************************************)
\* the step is a run of process_subscription_expiry that found the row
\* expired
ExpiryRunOnExpiredRow ==
    /\ ProcessExpiry
    /\ subscriptions[1].subscription_end_date <= utcnow
    /\ subscriptions[1].subscription_status \in {"TRIAL", "ACTIVE", "GRACE_PERIOD"}

\* the step is a webhook of a completed payment
CompletedWebhook ==
    \E payment_reference \in WebhookReferences :
        PaymentWebhook(payment_reference, "COMPLETED")

SubscriptionStep ==
    (subscriptions # <<>> /\ subscriptions' # <<>>) =>
        LET old == subscriptions[1]
            new == subscriptions'[1]
            from == old.subscription_status
            to == new.subscription_status
        IN  \* into the first grace period
            /\ (to = "GRACE_PERIOD" /\ new.grace_periods_used = 1
                   /\ (from # to \/ old.grace_periods_used # 1)) =>
                  /\ ExpiryRunOnExpiredRow
                  /\ from = "TRIAL" \/ (from = "ACTIVE" /\ old.auto_renew)
            \* into the second grace period
            /\ (to = "GRACE_PERIOD" /\ new.grace_periods_used = 2
                   /\ (from # to \/ old.grace_periods_used # 2)) =>
                  /\ ExpiryRunOnExpiredRow
                  /\ from = "GRACE_PERIOD" /\ old.grace_periods_used = 1
            \* into EXPIRED
            /\ (to = "EXPIRED" /\ from # to) =>
                  /\ ExpiryRunOnExpiredRow
                  /\ \/ from = "GRACE_PERIOD" /\ old.grace_periods_used = 2
                     \/ from = "ACTIVE" /\ ~old.auto_renew
            \* into ACTIVE and back to TRIAL
            /\ (to = "ACTIVE" /\ from # to) => CompletedWebhook
            /\ to = "TRIAL" => from = "TRIAL"
            \* an expiry run on an ACTIVE row whose end date has passed
            /\ (ExpiryRunOnExpiredRow /\ from = "ACTIVE") =>
                  IF old.auto_renew
                  THEN to = "GRACE_PERIOD" /\ new.grace_periods_used = 1
                  ELSE to = "EXPIRED"

\* what the row of a subscription that never had a completed payment shows
\* of its way: a trial of 14 days, then grace periods of 7 days each
UnpaidTrail ==
    \A k \in 1..Len(subscriptions) :
        LET row == subscriptions[k]
        IN  row.payment_reference = None =>
              /\ row.subscription_status \in
                    {"TRIAL", "GRACE_PERIOD", "EXPIRED", "CANCELLED"}
              /\ row.subscription_status = "TRIAL" => row.grace_periods_used = 0
              /\ row.subscription_status = "GRACE_PERIOD" =>
                    row.grace_periods_used \in {1, 2}
              /\ row.grace_periods_used >= 1 =>
                    row.grace_period_start_date >= row.trial_start_date + 14
              /\ row.grace_periods_used = 2 =>
                    row.grace_period_start_date >= row.trial_start_date + 14 + 7
              /\ row.subscription_status = "EXPIRED" =>
                    /\ row.grace_periods_used = 2
                    /\ utcnow >= row.trial_start_date + 14 + 7 + 7

\* C28: grace_periods_used is always 0, 1 or 2; the row gets into the first
\* grace period, the second grace period and EXPIRED only by an expiry run
\* at a time when subscription_end_date <= now: into the first from TRIAL or
\* from ACTIVE with auto_renew, into the second from the first, into EXPIRED
\* from the second or from ACTIVE without auto_renew; a subscription without
\* a completed payment is never ACTIVE and is EXPIRED only with both grace
\* periods used, 28 days or more after the trial started.
ExpiryLadder ==
    /\ [](\A k \in 1..Len(subscriptions) :
              subscriptions[k].grace_periods_used \in {0, 1, 2})
    /\ []UnpaidTrail
    /\ [][SubscriptionStep]_vars

\* an unpaid trial that expired on the first day it can: day 28
ExpiredTrialWitness ==
    /\ subscriptions # <<>>
    /\ subscriptions[1].subscription_status = "EXPIRED"
    /\ subscriptions[1].payment_reference = None
    /\ subscriptions[1].grace_periods_used = 2
    /\ utcnow = 28

\* what a webhook with the given reference and status does to the
\* subscription of the payment it names
WebhookEffect(payment_reference, status) ==
    IF status = "COMPLETED" /\ payment_reference \in 1..Len(payment_history)
          /\ subscriptions # <<>>
    THEN LET old == subscriptions[1]
             new == subscriptions'[1]
             start_date == IF old.subscription_status = "GRACE_PERIOD"
                           THEN old.grace_period_end_date
                           ELSE utcnow
         IN  /\ new.subscription_status = "ACTIVE"
             /\ new.grace_periods_used = 0
             /\ new.grace_period_start_date = -1
             /\ new.grace_period_end_date = -1
             /\ new.subscription_start_date = start_date
             /\ new.subscription_end_date = start_date + 30
    ELSE subscriptions' = subscriptions

CurrentTdeeIsCalculated ==
    \A k \in CurrentMetrics :
        user_metrics[k].calculated_tdee =
            calculate_tdee(user_metrics[k].weight_kg,
                           user_metrics[k].body_fat_percentage,
                           user_metrics[k].activity_level)

\* C30: the user has at most one user_metrics row with is_current = true,
\* also when two calls of create_user_metrics interleave the query for the
\* current row and the commit, and the calculated_tdee of the current row
\* is calculate_tdee of its weight_kg, body_fat_percentage and
\* activity_level.
OneCurrentMetrics ==
    /\ Cardinality(CurrentMetrics) <= 1
    /\ CurrentTdeeIsCalculated

====
